---- MODULE Spec2Model ----
(***************************************************************************)
(* Verification model of the prior-authorization backend:                  *)
(*   - the dispatch consumer      (planner-backend/consumer.py)            *)
(*   - the batch ingestor         (producerConsumer/.../sequential_batch_service.py) *)
(*   - the pooled session service (browser-agent/app/routers/sessions.py)  *)
(*   - the single-session service (browser-use-serverless/app/routers/sessions.py) *)
(*   - the agents router          (browser-use-serverless/app/routers/agents.py) *)
(*   - the log relay              (producerConsumer/.../api/sse_and_consumer.py) *)
(*   - the status endpoint        (producerConsumer/.../api/sequential_batch.py) *)
(*   - the agent tools upload_file and human_in_the_loop                   *)
(*                                (browser-use-serverless/app/utility/customController.py) *)
(*   - the vendor and status-label helpers (sequential_batch_service.py,   *)
(*     mongodb_service.py, planner-backend/api/dashboard_api.py)           *)
(* Each service is a separate process; each has its own specification over *)
(* its own variables, the variables of the other services stay unchanged.  *)
(* Handlers are asyncio coroutines: the code between two awaits runs       *)
(* atomically, so one action is one await-free segment of a handler.       *)
(***************************************************************************)
EXTENDS Integers, Sequences, FiniteSets, TLC

(***************************************************************************)
(* Bounds of the model.                                                    *)
(***************************************************************************)
\* deliveries the consumer handles, distinct broker message ids, distinct
\* request ids in message bodies
MaxDeliveries == 3
MaxMessageIds == 2
MaxRequestIds == 1
\* ingest_batch calls and payloads per call
MaxBatches == 1
MaxBatchLen == 3
\* HTTP requests to the sessions router, highest pool index a DELETE names,
\* requests handled at the same time
MaxRequests == 4
MaxTarget == 1
MaxInFlight == 2
\* creations that meet a failure, sessions whose children ignore SIGTERM
MaxFailures == 1
MaxStubborn == 1
\* slots that are free when the first request arrives at a busy pool
MaxFreeAtStart == 1
\* POST /agents calls, control commands (stop, pause, resume, status), and
\* sessions that are ready when the first of them arrives
MaxAgents == 2
MaxCommands == 1
MaxAgentRequestIds == 2
MaxAgentsRequests == 1
MaxTeardownRequests == 2
MaxTeardownAgents == 1
MaxSingleRequests == 2
MaxBusyRequests == 2
MaxReadyAtStart == 2
\* clients of /stream-logs/request/R, clients of /stream-logs/{key} on the
\* log stream, records appended to the log stream, messages published on
\* the log channel
MaxRequestConns == 1
MaxStreamConns == 1
MaxRecords == 3
MaxPublished == 2
\* request ids without a progress row that a status update may name
MaxUnknownIds == 3

(***************************************************************************)
(* State of the services.                                                  *)
(***************************************************************************)
VARIABLES
    redis_data,        \* InMemoryCache._data: the keys currently present
    hpc,               \* position of each handle_message coroutine
    hmsg,              \* the message each handler was invoked with
    hacks,             \* number of msg.ack() calls each handler made
    hexit,             \* the exit each handler took / the planner's answer
    claimed_by,        \* history: per req_id, the handler whose claim put the present inflight key
    request_progress,  \* requestProgress collection: rows [requestId, status]
    put_answer,        \* history: request id and HTTP status of the last status update
    batch_metadata,    \* batch_metadata collection: batch_id -> status
    batch_requests,    \* batch_requests collection: the Request rows
    publish_futures,   \* per ingest_batch call: the futures of publisher.publish
    topic,             \* messages the broker has accepted on the work topic
    ipc,               \* position of each ingest_batch coroutine
    ilen,              \* len(requests) of each ingest_batch call
    ii,                \* loop index i of each ingest_batch call
    mode,              \* which sessions router runs: "pooled" or "single"
    displayAllocation, \* which services/displayAllocation.py it imports
    SESSIONS_MAP,      \* pooled: session id -> in use
    current_session_id,\* single: the active session id, or NoSid
    SESSION_ID_TO_PORTS,    \* single: ids with SESSION_ID_TO_{VNC_PORT,WEB_PORT,DISPLAY_NUM} entries
    USED_DISPLAY_NUMS, \* display number -> in use
    USED_VNC_PORTS,    \* VNC port -> in use
    USED_WEB_PORTS,    \* web port -> in use
    SESSION_ID_TO_BROWSER_SESSION, \* session id -> browser handle, or NoBrowser
    SESSION_PROCESSES, \* session id -> list of tracked child processes
    proc,              \* child process -> "none", "running" or "exited"
    ignores_term,      \* per create request: its children that ignore SIGTERM
    browser,           \* browser launched by a create request: "none", "running", "stopped"
    rpc,               \* position of each HTTP request coroutine
    rkind,             \* "create" or "delete"
    rsteps,            \* history: per create request, its start-up steps in order
    rslept,            \* history: per create request, the seconds of each back-off sleep
    rsid,              \* the session_id local of the request
    rattempt,          \* create: the attempt counter of the attach loop
    rcode,             \* HTTP status returned (0 while running)
    rbrowser,          \* delete: the browser_session local
    live,              \* history: the create request holds a session not deleted since
    deleted,           \* history: per delete request, the sessions it deleted
    DISPLAY,           \* os.environ["DISPLAY"] of the server process, or NoDisplay
    original_display,  \* create: the original_display local
    SESSION_TO_KEYS,   \* ids with SESSION_TO_{VNC_PORT,WEB_PORT,DISPLAY_NUM} entries
    SESSION_ID_TO_AGENT_MAP, \* session id -> Agent object, or NoAgent
    apc,               \* position of each POST /agents coroutine
    asid,              \* its session_id
    abrowser,          \* the browser_session its Agent was built with
    acode,             \* HTTP status it returned (0 while running)
    astate,            \* control flag of each Agent: "none", "active", "paused", "stopped"
    cmd,               \* history: session id and answer of the last control command
    ncmd,              \* history: number of control commands so far
    bu_handlers,       \* logging.getLogger("browser_use").handlers: the RedisHandlers, by call
    bu_level,          \* logging.getLogger("browser_use").level
    sys_stdout,        \* sys.stdout (sys.stderr is assigned alongside it)
    bu_prev_level,     \* create_agent: the bu_prev_level local
    saved_stdout,      \* create_agent: the _stdout local (_stderr alongside it)
    tee_orig,          \* the orig attribute of the _StdTee each call built
    appended,          \* history: <<R, a>>: a record call a emitted was added to browser_use_logs:R
    log_stream,        \* Redis stream browser_use_logs:R: the record ids, in append order
    published,         \* number of messages published on channel browser_use_logs:R
    cpc,               \* position of each SSE generator
    ckind,             \* the endpoint it serves: "stream" or "request"
    last_id,           \* stream_logs: the last_id local
    pubsub,            \* stream_logs_by_request: messages waiting in its pubsub object
    disconnected,      \* the client of the connection has gone
    delivered,         \* history: ids of the log events sent on the connection
    iteration,         \* history: what the last loop iteration read and sent
    at_open,           \* history: length of the log stream when the client opened
    subscription,      \* stream_logs_by_request: its pubsub object: "none", "subscribed", "closed"
    loop_held,         \* the connection whose generator is inside a blocking call on the event loop
    call,              \* a call of a helper function: its name and its arguments
    result             \* what that call returned and did

callVars == <<call, result>>
sseVars == <<log_stream, published, cpc, ckind, last_id, pubsub, disconnected,
            delivered, iteration, at_open, subscription, loop_held>>
consumerVars == <<redis_data, hpc, hmsg, hacks, hexit, claimed_by>>
progressVars == <<request_progress, put_answer>>
ingestVars == <<batch_metadata, batch_requests, publish_futures, topic, ipc, ilen, ii>>
sessionVars == <<mode, displayAllocation, SESSIONS_MAP, current_session_id,
                 SESSION_ID_TO_PORTS, USED_DISPLAY_NUMS, USED_VNC_PORTS,
                 USED_WEB_PORTS, SESSION_ID_TO_BROWSER_SESSION, SESSION_PROCESSES,
                 proc, ignores_term, browser, rpc, rkind, rsteps, rslept, rsid, rattempt, rcode,
                 rbrowser, live, deleted, DISPLAY, original_display,
                 SESSION_TO_KEYS, SESSION_ID_TO_AGENT_MAP, apc, asid, abrowser,
                 acode, astate, cmd, ncmd, bu_handlers, bu_level, sys_stdout,
                 bu_prev_level, saved_stdout, tee_orig, appended>>

\* no helper call is being looked at
NoCall == [op |-> "none"]
NoResult == [done |-> FALSE]
InitCalls == call = NoCall /\ result = NoResult

Handlers   == 1..MaxDeliveries
MessageIds == 1..MaxMessageIds
\* request ids are uuid4 strings; the model numbers them from FirstRequestId
\* so that they never coincide with a broker message id
FirstRequestId == 201
RequestIds == FirstRequestId..(FirstRequestId + MaxRequestIds - 1)

\* no req_id attribute on the message (attributes.get returns None)
NoAttr    == 0
\* a body json.loads cannot decode into an object
Malformed == 0
NoMsg     == [message_id |-> 0, req_id |-> NoAttr, body |-> Malformed]

\* req_id attribute values a publisher may set: the id of some request
ReqIdAttrs == RequestIds

\* A Pub/Sub message: broker message id, the req_id attribute (or none), and
\* the body, either undecodable or a JSON object carrying request_id.
Messages ==
    [message_id : MessageIds,
     req_id     : ReqIdAttrs \cup {NoAttr},
     body       : RequestIds \cup {Malformed}]

StatusValues == {"created", "in_progress", "completed", "failed"}

\* msg.attributes.get("req_id") or msg.message_id
req_id_for(msg) ==
    IF msg.req_id # NoAttr THEN msg.req_id ELSE msg.message_id

\* the values _req_id_for can return
ReqIds == RequestIds \cup MessageIds
\* no handler's claim is in the cache
NoHandler == 0

inflight_key(req_id)  == <<"inflight", req_id>>
processed_key(req_id) == <<"processed", req_id>>

\* InMemoryCache.get: truthy iff the key is present
cache_get(data, key) == key \in data

\* InMemoryCache.set(key, "1", nx=True, ex=INFLIGHT_TTL)
cache_set_nx(data, key) ==
    IF key \in data THEN [ok |-> FALSE, data |-> data]
                    ELSE [ok |-> TRUE,  data |-> data \cup {key}]

\* InMemoryCache.setex
cache_setex(data, key) == data \cup {key}

\* InMemoryCache.delete
cache_delete(data, key) == data \ {key}

\* a claim that does not test for an existing lock
claim_inflight_always(data, req_id) ==
    [ok |-> TRUE, data |-> data \cup {inflight_key(req_id)}]

claim_inflight(data, req_id) == cache_set_nx(data, inflight_key(req_id))

\* a release that leaves the lock in place
clear_inflight_never(data, req_id) == data

clear_inflight(data, req_id) == cache_delete(data, inflight_key(req_id))

mark_processed(data, req_id) == cache_setex(data, processed_key(req_id))

\* does this planner answer mark the request processed (200 <= status < 300)
is_success(outcome) == outcome = "2xx"

\* no ack after a failed planner call (leave the message for redelivery)
acks_after_success_only(outcome) == IF outcome = "2xx" THEN 1 ELSE 0

\* the msg.ack() calls handle_message makes after the planner call: one in
\* each branch (2xx, non-2xx, timeout/network error, other exception)
acks_after(outcome) == 1

PlannerOutcomes == {"2xx", "non2xx", "timeout", "error"}

\* A broker message id names one message: every delivery of it has the same
\* attributes and body.
SameMessage(m) ==
    \A h \in Handlers :
        (hpc[h] # "idle" /\ hmsg[h].message_id = m.message_id) => hmsg[h] = m

\* Handlers are numbered in the order of their invocation, message ids and
\* request ids in the order of their first appearance.
Delivered == {h \in Handlers : hpc[h] # "idle"}

InOrder(h, m) ==
    /\ \A g \in Handlers : g < h => g \in Delivered
    /\ m.message_id <= 1 + Cardinality({hmsg[g].message_id : g \in Delivered})
    /\ m.body <= FirstRequestId
                    + Cardinality({hmsg[g].body : g \in Delivered} \ {Malformed})

InitConsumer ==
    /\ redis_data = {}
    /\ hpc   = [h \in Handlers |-> "idle"]
    /\ hmsg  = [h \in Handlers |-> NoMsg]
    /\ hacks = [h \in Handlers |-> 0]
    /\ hexit = [h \in Handlers |-> "none"]
    /\ claimed_by = [q \in ReqIds |-> NoHandler]

\* handle_message, from delivery up to the await of call_planner
handle_message(h, m) ==
    /\ hpc[h] = "idle"
    /\ SameMessage(m)
    /\ InOrder(h, m)
    /\ hmsg' = [hmsg EXCEPT ![h] = m]
    /\ LET req_id == req_id_for(m)
           claim  == claim_inflight(redis_data, req_id)
       IN  IF m.body = Malformed
           THEN /\ hacks' = [hacks EXCEPT ![h] = @ + 1]
                /\ hexit' = [hexit EXCEPT ![h] = "malformed"]
                /\ hpc'   = [hpc EXCEPT ![h] = "done"]
                /\ UNCHANGED <<redis_data, claimed_by>>
           ELSE IF cache_get(redis_data, processed_key(req_id))
           THEN /\ hacks' = [hacks EXCEPT ![h] = @ + 1]
                /\ hexit' = [hexit EXCEPT ![h] = "duplicate"]
                /\ hpc'   = [hpc EXCEPT ![h] = "done"]
                /\ UNCHANGED <<redis_data, claimed_by>>
           ELSE IF ~claim.ok
           THEN /\ hacks' = [hacks EXCEPT ![h] = @ + 1]
                /\ hexit' = [hexit EXCEPT ![h] = "locked"]
                /\ hpc'   = [hpc EXCEPT ![h] = "done"]
                /\ UNCHANGED <<redis_data, claimed_by>>
           ELSE /\ redis_data' = claim.data
                /\ claimed_by' = [claimed_by EXCEPT ![req_id] = h]
                /\ hpc' = [hpc EXCEPT ![h] = "planner"]
                /\ UNCHANGED <<hacks, hexit>>
    /\ UNCHANGED <<progressVars, ingestVars, sessionVars, sseVars, callVars>>

\* handle_message, from the return of call_planner to the end (try/except/finally)
planner_returns(h, outcome) ==
    /\ hpc[h] = "planner"
    /\ LET req_id == req_id_for(hmsg[h])
           marked == IF is_success(outcome)
                     THEN mark_processed(redis_data, req_id)
                     ELSE redis_data
       IN  /\ redis_data' = clear_inflight(marked, req_id)
           /\ claimed_by' = [claimed_by EXCEPT ![req_id] = NoHandler]
    /\ hacks' = [hacks EXCEPT ![h] = @ + acks_after(outcome)]
    /\ hexit' = [hexit EXCEPT ![h] = outcome]
    /\ hpc'   = [hpc EXCEPT ![h] = "done"]
    /\ UNCHANGED <<hmsg, progressVars, ingestVars, sessionVars, sseVars, callVars>>

\* time passes beyond the expiry of a key (INFLIGHT_TTL for a lock,
\* DEDUP_TTL for a processed mark): _is_expired drops the key at the next
\* get or set, and until then delete and setex treat it like an absent key
ttl_elapses(key) ==
    /\ key \in redis_data
    /\ redis_data' = redis_data \ {key}
    /\ claimed_by' = [q \in ReqIds |->
                         IF key = inflight_key(q) THEN NoHandler ELSE claimed_by[q]]
    /\ UNCHANGED <<hpc, hmsg, hacks, hexit, progressVars, ingestVars, sessionVars,
                   sseVars, callVars>>

\* update_one({"requestId": request_id}, {"$set": ...}, upsert=True)
upsert_progress(coll, request_id, st) ==
    {p \in coll : p.requestId # request_id}
        \cup {[requestId |-> request_id, status |-> st]}

\* MongoDBService.create_or_update_request_progress
create_or_update_request_progress(coll, request_id, st) ==
    upsert_progress(coll, request_id, st)

\* no status update was answered yet
NoPut == [request_id |-> 0, code |-> 0]

\* MongoDBService.get_request_progress: the row, or None when there is no
\* row or when find_one raised
get_request_progress(coll, request_id, read_ok) ==
    IF read_ok THEN {p \in coll : p.requestId = request_id} ELSE {}

PutOutcomes == {"ok", "write_fails", "read_fails"}

\* PUT /prior-auths/requests/{id}/status: upsert of the progress row, then
\* the read of the row that decides between 200 and 404
update_request_status(r, st) ==
    /\ [requestId |-> r, status |-> st] \notin request_progress
    /\ \E outcome \in PutOutcomes :
          IF outcome = "write_fails"
          THEN /\ put_answer' = [request_id |-> r, code |-> 500]
               /\ UNCHANGED request_progress
          ELSE LET coll == create_or_update_request_progress(request_progress, r, st)
                   progress == get_request_progress(coll, r, outcome = "ok")
               IN  /\ request_progress' = coll
                   /\ put_answer' = [request_id |-> r,
                                      code |-> IF progress = {} THEN 404 ELSE 200]
    /\ UNCHANGED <<consumerVars, ingestVars, sessionVars, sseVars, callVars>>

(***************************************************************************)
(* Batch ingestor.                                                         *)
(***************************************************************************)
Batches == 1..MaxBatches

\* str(n) for n >= 0: the decimal digits
RECURSIVE IntToStr(_)
IntToStr(n) ==
    IF n < 10 THEN <<n>> ELSE Append(IntToStr(n \div 10), n % 10)

\* int(s) of a digit string
RECURSIVE StrToInt(_)
StrToInt(s) ==
    IF Len(s) = 0 THEN 0
    ELSE 10 * StrToInt(SubSeq(s, 1, Len(s) - 1)) + s[Len(s)]

\* the uuid4 drawn for the i-th payload (i from 0) of call b: fresh each time
\* it is drawn
uuid4(b, i) == FirstRequestId + (b - 1) * (MaxBatchLen + 1) + i

\* a request_id drawn once per call instead of once per payload
request_id_per_batch(b, i) == uuid4(b, 0)

\* request_id = str(uuid.uuid4()), inside the loop over the payloads
new_request_id(b, i) == uuid4(b, i)

\* "sequence_no": i + 1 of enumerate(requests)
sequence_no(i) == i + 1

\* the document inserted into batch_requests for payload i of call b
request_row(b, i) ==
    [batch_id    |-> b,
     sequence_no |-> IntToStr(sequence_no(i)),
     total_count |-> IntToStr(ilen[b]),
     request_id  |-> new_request_id(b, i),
     payload     |-> i]

\* message_data published for payload i of call b
message_data(b, i) ==
    [batch_id    |-> b,
     sequence_no |-> sequence_no(i),
     request_id  |-> new_request_id(b, i),
     total_count |-> ilen[b]]

IngestRequestIds ==
    FirstRequestId..(FirstRequestId + MaxBatches * (MaxBatchLen + 1))

InitIngest ==
    /\ batch_metadata = [b \in Batches |-> "none"]
    /\ batch_requests = {}
    /\ publish_futures = [b \in Batches |-> <<>>]
    /\ topic = {}
    /\ ipc  = [b \in Batches |-> "idle"]
    /\ ilen = [b \in Batches |-> 0]
    /\ ii   = [b \in Batches |-> 0]

\* an except branch that re-raises without recording the failure
ingest_fails_keeps_status(b) ==
    /\ batch_metadata' = batch_metadata
    /\ ipc' = [ipc EXCEPT ![b] = "failed"]

\* the except branch of ingest_batch: status publish_failed, re-raise
ingest_fails(b) ==
    /\ batch_metadata' = [batch_metadata EXCEPT ![b] = "publish_failed"]
    /\ ipc' = [ipc EXCEPT ![b] = "failed"]

\* ingest_batch up to the insert of the batch metadata; calls are numbered in
\* the order they start
ingest_batch(b, n) ==
    /\ ipc[b] = "idle"
    /\ \A c \in Batches : c < b => ipc[c] # "idle"
    /\ batch_metadata' = [batch_metadata EXCEPT ![b] = "pending_publish"]
    /\ ilen' = [ilen EXCEPT ![b] = n]
    /\ ipc' = [ipc EXCEPT ![b] = IF n = 0 THEN "wait" ELSE "rows"]
    /\ UNCHANGED <<batch_requests, publish_futures, topic, ii, progressVars,
                   consumerVars, sessionVars, sseVars, callVars>>

\* an endpoint that hands every batch to the service
is_empty_never(n) == FALSE

\* "not batch_data.patient_records"
is_empty(n) == n = 0

\* POST /agentic-platform/prior-auths with n patient records: 400 for an
\* empty list, else process_complete_batch_flow, which calls ingest_batch
process_complete_batch(b, n) ==
    IF is_empty(n)
    THEN /\ ipc[b] = "idle"
         /\ \A c \in Batches : c < b => ipc[c] # "idle"
         /\ ipc' = [ipc EXCEPT ![b] = "rejected"]
         /\ UNCHANGED <<batch_metadata, batch_requests, publish_futures, topic, ilen,
                        ii, progressVars, consumerVars, sessionVars, sseVars, callVars>>
    ELSE ingest_batch(b, n)

\* one iteration of the loop over the payloads: the Request row, the progress
\* row with status CREATED, then publisher.publish; either database call may
\* raise.  The awaits inside one iteration touch only the rows of this
\* request-id, which no other coroutine reads or writes, so the iteration is
\* one step.
ingest_iteration(b, db) ==
    /\ ipc[b] = "rows"
    /\ LET row == request_row(b, ii[b])
       IN  CASE db = "ok" ->
                  /\ batch_requests' = batch_requests \cup {row}
                  /\ request_progress' = create_or_update_request_progress(
                                             request_progress, row.request_id, "created")
                  /\ publish_futures' = [publish_futures EXCEPT ![b] = Append(@, "pending")]
                  /\ ii' = [ii EXCEPT ![b] = @ + 1]
                  /\ ipc' = [ipc EXCEPT ![b] =
                                IF ii[b] + 1 = ilen[b] THEN "wait" ELSE "rows"]
                  /\ UNCHANGED batch_metadata
             [] db = "request_insert_fails" ->
                  /\ ingest_fails(b)
                  /\ UNCHANGED <<batch_requests, request_progress, publish_futures, ii>>
             [] db = "progress_upsert_fails" ->
                  /\ batch_requests' = batch_requests \cup {row}
                  /\ ingest_fails(b)
                  /\ UNCHANGED <<request_progress, publish_futures, ii>>
    /\ UNCHANGED <<topic, ilen, put_answer, consumerVars, sessionVars, sseVars, callVars>>

DbOutcomes == {"ok", "request_insert_fails", "progress_upsert_fails"}

\* the broker acknowledges a published message, or the publish fails
broker_resolves(b, j, ok) ==
    /\ j \in 1..Len(publish_futures[b])
    /\ publish_futures[b][j] = "pending"
    /\ publish_futures' = [publish_futures EXCEPT ![b][j] =
                              IF ok THEN "acked" ELSE "failed"]
    /\ topic' = IF ok THEN topic \cup {message_data(b, j - 1)} ELSE topic
    /\ UNCHANGED <<batch_metadata, batch_requests, ipc, ilen, ii,
                   progressVars, consumerVars, sessionVars, sseVars, callVars>>

\* a wait that looks at the first future only
all_acked_first_only(futures) == Len(futures) = 0 \/ futures[1] = "acked"

\* may the batch be committed: every future.result() returned
all_acked(futures) == \A j \in 1..Len(futures) : futures[j] = "acked"

\* the first future whose result() raises, the earlier ones having returned
first_failed(futures) ==
    {j \in 1..Len(futures) :
        futures[j] = "failed" /\ \A k \in 1..(j - 1) : futures[k] = "acked"}

\* "for future in publish_futures: future.result()", then the status update
ingest_commit(b) ==
    /\ ipc[b] = "wait"
    /\ \/ /\ all_acked(publish_futures[b])
          /\ batch_metadata' = [batch_metadata EXCEPT ![b] = "published"]
          /\ ipc' = [ipc EXCEPT ![b] = "done"]
       \/ /\ first_failed(publish_futures[b]) # {}
          /\ ingest_fails(b)
    /\ UNCHANGED <<batch_requests, publish_futures, topic, ilen, ii,
                   progressVars, consumerVars, sessionVars, sseVars, callVars>>

\* ---------------------------------------------------------------------
\* Browser session services.
\*
\* Two routers expose POST /sessions and DELETE /sessions/{id}: the pooled
\* router (ten fixed session ids, first free one wins) and the
\* single-session router (one random id at a time).  Both call
\* services/displayAllocation.py, of which the repository holds two
\* versions: the older one ("app": terminate-only cleanup, no pre-clean,
\* no cleanup on a start-up error) and the newer one ("serverless").
\* Handlers are coroutines on one event loop: the code between two awaits
\* is one action; subprocess calls and time.sleep block the loop and stay
\* inside the action.
\* ---------------------------------------------------------------------
PoolSize == 10
BASE_VNC_PORT == 6080
BASE_WEB_PORT == 5080
BASE_DISPLAY_NUM == 101
retries == 3

Requests == 1..MaxRequests
\* the POST /sessions calls that were answered before the first of Requests
\* arrived; one per slot that is held at the start
EarlierRequests == (MaxRequests + 1)..(MaxRequests + PoolSize)
AllRequests == Requests \cup EarlierRequests
earlier(sid) == MaxRequests + 1 + sid
\* "session_00" .. "session_09", written as their index
PoolSids == 0..(PoolSize - 1)
FirstRandomSid == 1000
\* a fresh random id per call
generate_session_id(r) == FirstRandomSid + r
RandomSids == {generate_session_id(r) : r \in Requests}
Sids == PoolSids \cup RandomSids
NoSid == -1
NoBrowser == 0
\* DISPLAY is not in os.environ
NoDisplay == 0
\* a session id that is not a key of SESSIONS_MAP
UnknownSid == 99
DeleteTargets == (0..MaxTarget) \cup {UnknownSid}

SESSION_TO_VNC_PORT(sid) == BASE_VNC_PORT + sid
SESSION_TO_WEB_PORT(sid) == BASE_WEB_PORT + sid
SESSION_TO_DISPLAY_NUM(sid) == BASE_DISPLAY_NUM + sid
VncPorts == {BASE_VNC_PORT + i : i \in 0..(PoolSize - 1)}
WebPorts == {BASE_WEB_PORT + i : i \in 0..(PoolSize - 1)}
DisplayNums == {BASE_DISPLAY_NUM + i : i \in 0..(PoolSize - 1)}

\* the (display_num, vnc_port, web_port) a router passes for a session id
pooled_args(sid) ==
    [display |-> SESSION_TO_DISPLAY_NUM(sid),
     vnc |-> SESSION_TO_VNC_PORT(sid),
     web |-> SESSION_TO_WEB_PORT(sid)]
single_args ==
    [display |-> BASE_DISPLAY_NUM, vnc |-> BASE_VNC_PORT, web |-> BASE_WEB_PORT]
args_of(sid) == IF sid \in PoolSids THEN pooled_args(sid) ELSE single_args

ProcKinds == {"Xvfb", "xrandr", "x11vnc", "websockify"}
ProcIds == AllRequests \X ProcKinds
\* the children of one session either all honour SIGTERM or the
\* long-running ones ignore it
IgnoreTermChoices == {{}, {"Xvfb", "x11vnc", "websockify"}}
StartOutcomes == {"ok", "display_not_ready", "vnc_spawn_error", "proxy_spawn_error"}

Min(S) == CHOOSE x \in S : \A y \in S : x <= y
Range(f) == {f[i] : i \in DOMAIN f}

\* The part of the state the process helpers read and write.
World ==
    [proc |-> proc, sp |-> SESSION_PROCESSES, sids |-> rsid,
     ign |-> ignores_term, mapped |-> SESSION_ID_TO_PORTS,
     impl |-> displayAllocation, log |-> rsteps, signals |-> <<>>]

\* the number on a process's command line that a pkill pattern matches
cmdline_number(W, p) ==
    LET a == args_of(W.sids[p[1]])
    IN  CASE p[2] = "Xvfb" -> a.display
          [] p[2] = "x11vnc" -> a.vnc
          [] p[2] = "websockify" -> a.web
          [] OTHER -> -1

\* Popen.terminate(): SIGTERM
terminate(W, ids) ==
    [W EXCEPT !.proc = [p \in ProcIds |->
        IF p \in ids /\ W.proc[p] = "running" /\ p[2] \notin W.ign[p[1]]
        THEN "exited" ELSE W.proc[p]]]

\* Popen.kill() + wait(): SIGKILL
kill(W, ids) ==
    [W EXCEPT !.proc = [p \in ProcIds |->
        IF p \in ids /\ W.proc[p] = "running" THEN "exited" ELSE W.proc[p]]]

\* pkill -f "<kind>.*<number>": SIGTERM to every matching process
pkill(W, kind, number) ==
    terminate(W, {p \in ProcIds : /\ p[2] = kind
                                  /\ W.sids[p[1]] # NoSid
                                  /\ cmdline_number(W, p) = number})

\* subprocess.Popen
spawn(W, p) ==
    [W EXCEPT !.proc[p] = "running", !.log[p[1]] = Append(@, p[2])]

\* a call that goes on without waiting for the display
wait_for_display_skipped(W, r) == W

\* wait_for_display returns True
wait_for_display(W, r) == [W EXCEPT !.log[r] = Append(@, "display_ready")]

\* a back-off that does not grow with the attempt
backoff_constant(attempt) == 2

\* await asyncio.sleep(2 * attempt): the seconds slept after a failed attempt
backoff(attempt) == 2 * attempt

\* the attach loop calls session.start()
launch(steps, r) == [steps EXCEPT ![r] = Append(@, "browser")]

\* the steps of a create request that was answered 200 at its first attempt
all_steps == <<"Xvfb", "display_ready", "xrandr", "x11vnc", "websockify", "browser">>

\* display number that cleanup derives from the session id
cleanup_display_num(sid) == (IF sid \in PoolSids THEN sid ELSE 0) + BASE_DISPLAY_NUM

\* the loop "for proc in procs", from the first spawned to the last
in_list_order(procs) == procs

\* the signals one loop over the Popen list sends, in the order it sends
\* them; only_running: the loop tests proc.poll() is None first
sent(W, procs, sig, only_running) ==
    LET targets == SelectSeq(in_list_order(procs),
                             LAMBDA q : ~only_running \/ W.proc[q] = "running")
    IN  [i \in DOMAIN targets |-> [proc |-> targets[i], sig |-> sig]]

cleanup_terminate_only(W, sid) ==
    [terminate(W, Range(W.sp[sid])) EXCEPT
        !.sp[sid] = <<>>,
        !.signals = @ \o sent(W, W.sp[sid], "TERM", FALSE)]

cleanup_terminate_kill(W, sid) ==
    LET procs == Range(W.sp[sid])
        Wt == [terminate([W EXCEPT !.sp[sid] = <<>>], procs) EXCEPT
                  !.signals = @ \o sent(W, W.sp[sid], "TERM", TRUE)]
        \* time.sleep(2), then the second loop
        W1 == [kill(Wt, procs) EXCEPT
                  !.signals = @ \o sent(Wt, W.sp[sid], "KILL", TRUE)]
    IN  IF sid \in W.mapped
        THEN pkill(pkill(pkill(W1, "x11vnc", BASE_VNC_PORT),
                         "websockify", BASE_WEB_PORT),
                   "Xvfb", cleanup_display_num(sid))
        ELSE W1

cleanup_session_processes(W, sid) ==
    IF W.impl = "app" THEN cleanup_terminate_only(W, sid)
    ELSE cleanup_terminate_kill(W, sid)

\* start_vnc_session.  outcome says where it stops; xvfb_alive says
\* whether the display server is still running when the display never
\* became ready.
start_vnc_session(W, r, sid, a, outcome, xvfb_alive) ==
    LET W1 == IF W.impl = "serverless"
              THEN pkill(pkill(W, "x11vnc", a.vnc), "Xvfb", a.display)
              ELSE W
        W2 == spawn(W1, <<r, "Xvfb">>)
        \* xrandr applies the geometry and exits on its own
        W3 == [spawn(wait_for_display(W2, r), <<r, "xrandr">>) EXCEPT
                  !.proc[<<r, "xrandr">>] = "exited"]
        W4 == spawn(W3, <<r, "x11vnc">>)
    IN  CASE outcome = "display_not_ready" ->
               [w |-> IF xvfb_alive THEN W2
                      ELSE [W2 EXCEPT !.proc[<<r, "Xvfb">>] = "exited"],
                raised |-> TRUE]
          [] outcome = "vnc_spawn_error" -> [w |-> W3, raised |-> TRUE]
          [] OTHER ->
               [w |-> [W4 EXCEPT !.sp[sid] =
                          << <<r, "Xvfb">>, <<r, "xrandr">>, <<r, "x11vnc">> >>],
                raised |-> FALSE]

start_novnc_proxy(W, r, sid, a, outcome) ==
    LET W1 == IF W.impl = "serverless" THEN pkill(W, "websockify", a.web) ELSE W
    IN  IF outcome = "proxy_spawn_error"
        THEN [w |-> W1, raised |-> TRUE]
        ELSE [w |-> [spawn(W1, <<r, "websockify">>) EXCEPT
                        !.sp[sid] = Append(W1.sp[sid], <<r, "websockify">>)],
              raised |-> FALSE]

\* create_browser_session up to its first await
create_browser_session(W, r, sid, a, outcome, xvfb_alive) ==
    LET v == start_vnc_session(W, r, sid, a, outcome, xvfb_alive)
        s == IF v.raised THEN v ELSE start_novnc_proxy(v.w, r, sid, a, outcome)
    IN  IF s.raised /\ W.impl = "serverless"
        THEN [w |-> cleanup_session_processes(s.w, sid), raised |-> TRUE]
        ELSE s

\* cleanup when the last attach attempt failed
attach_failed_cleanup(W, sid) ==
    LET W1 == cleanup_session_processes(W, sid)
    IN  IF W.impl = "serverless" THEN cleanup_session_processes(W1, sid) ELSE W1

first_await(impl) == IF impl = "serverless" THEN "sleep" ELSE "start"

Agents == 1..MaxAgents
\* SESSION_ID_TO_AGENT_MAP.get(session_id) is None
NoAgent == 0
NoCmd == [sid |-> NoSid, code |-> 0]
\* logging.NOTSET, the level of a logger nobody configured, and logging.INFO
NOTSET == 0
INFO == 20
\* the stream sys.stdout names when the server starts; the _StdTee a call
\* installs is written as the number of the call
OriginalStream == 0
\* no value saved in _stdout
NoStream == -1

\* the agents router after import: no Agent, no call yet
InitAgents ==
    /\ SESSION_ID_TO_AGENT_MAP = [sid \in PoolSids |-> NoAgent]
    /\ apc = [a \in Agents |-> "idle"]
    /\ asid = [a \in Agents |-> NoSid]
    /\ abrowser = [a \in Agents |-> NoBrowser]
    /\ acode = [a \in Agents |-> 0]
    /\ astate = [a \in Agents |-> "none"]
    /\ cmd = NoCmd
    /\ ncmd = 0
    /\ bu_handlers = {}
    /\ bu_level = NOTSET
    /\ sys_stdout = OriginalStream
    /\ bu_prev_level = [a \in Agents |-> NOTSET]
    /\ saved_stdout = [a \in Agents |-> NoStream]
    /\ tee_orig = [a \in Agents |-> NoStream]
    /\ appended = {}

\* the processes start_vnc_session and start_novnc_proxy leave behind when
\* they succeed
tracked_procs(r) ==
    << <<r, "Xvfb">>, <<r, "xrandr">>, <<r, "x11vnc">>, <<r, "websockify">> >>

\* The state in which the first `held` slots of the pool are held by
\* sessions whose POST /sessions was answered 200 (held = 0: the state after
\* import).
InitSessionsHeld(m, impls, helds) ==
    \E held \in helds :
    LET Held == {sid \in PoolSids : sid < held}
        Holders == {earlier(sid) : sid \in Held}
    IN
    /\ mode = m
    /\ displayAllocation \in impls
    /\ SESSIONS_MAP = [sid \in PoolSids |-> sid \in Held]
    /\ current_session_id = NoSid
    /\ SESSION_ID_TO_PORTS = {}
    /\ USED_DISPLAY_NUMS = [n \in DisplayNums |-> n - BASE_DISPLAY_NUM \in Held]
    /\ USED_VNC_PORTS = [n \in VncPorts |-> n - BASE_VNC_PORT \in Held]
    /\ USED_WEB_PORTS = [n \in WebPorts |-> n - BASE_WEB_PORT \in Held]
    /\ SESSION_ID_TO_BROWSER_SESSION =
           [sid \in Sids |-> IF sid \in Held THEN earlier(sid) ELSE NoBrowser]
    /\ SESSION_PROCESSES =
           [sid \in Sids |-> IF sid \in Held THEN tracked_procs(earlier(sid)) ELSE <<>>]
    /\ proc = [p \in ProcIds |->
                 IF p[1] \in Holders
                 THEN (IF p[2] = "xrandr" THEN "exited" ELSE "running")
                 ELSE "none"]
    /\ ignores_term = [r \in AllRequests |-> {}]
    /\ browser = [r \in AllRequests |-> IF r \in Holders THEN "running" ELSE "none"]
    /\ rpc = [r \in AllRequests |-> IF r \in Holders THEN "done" ELSE "idle"]
    /\ rkind = [r \in AllRequests |-> IF r \in Holders THEN "create" ELSE "none"]
    /\ rsteps = [r \in AllRequests |-> IF r \in Holders THEN all_steps ELSE <<>>]
    /\ rslept = [r \in AllRequests |-> <<>>]
    /\ rsid = [r \in AllRequests |-> IF r \in Holders THEN r - MaxRequests - 1 ELSE NoSid]
    /\ rattempt = [r \in AllRequests |-> IF r \in Holders THEN 1 ELSE 0]
    /\ rcode = [r \in AllRequests |-> IF r \in Holders THEN 200 ELSE 0]
    /\ rbrowser = [r \in AllRequests |-> NoBrowser]
    /\ live = [r \in AllRequests |-> r \in Holders]
    /\ deleted = [r \in AllRequests |-> {}]
    /\ DISPLAY = NoDisplay
    /\ original_display = [r \in AllRequests |-> NoDisplay]
    /\ SESSION_TO_KEYS = PoolSids
    /\ InitAgents

\* The state in which the first `ready` requests were POST /sessions calls
\* that were answered 200 and hold the first `ready` slots.
InitSessionsReady(m, impls, ready) ==
    LET Holders == 1..ready
        Held == {r - 1 : r \in Holders}
    IN
    /\ mode = m
    /\ displayAllocation \in impls
    /\ SESSIONS_MAP = [sid \in PoolSids |-> sid \in Held]
    /\ current_session_id = NoSid
    /\ SESSION_ID_TO_PORTS = {}
    /\ USED_DISPLAY_NUMS = [n \in DisplayNums |-> n - BASE_DISPLAY_NUM \in Held]
    /\ USED_VNC_PORTS = [n \in VncPorts |-> n - BASE_VNC_PORT \in Held]
    /\ USED_WEB_PORTS = [n \in WebPorts |-> n - BASE_WEB_PORT \in Held]
    /\ SESSION_ID_TO_BROWSER_SESSION =
           [sid \in Sids |-> IF sid \in Held THEN sid + 1 ELSE NoBrowser]
    /\ SESSION_PROCESSES =
           [sid \in Sids |-> IF sid \in Held THEN tracked_procs(sid + 1) ELSE <<>>]
    /\ proc = [p \in ProcIds |->
                 IF p[1] \in Holders
                 THEN (IF p[2] = "xrandr" THEN "exited" ELSE "running")
                 ELSE "none"]
    /\ ignores_term = [r \in AllRequests |-> {}]
    /\ browser = [r \in AllRequests |-> IF r \in Holders THEN "running" ELSE "none"]
    /\ rpc = [r \in AllRequests |-> IF r \in Holders THEN "done" ELSE "idle"]
    /\ rkind = [r \in AllRequests |-> IF r \in Holders THEN "create" ELSE "none"]
    /\ rsteps = [r \in AllRequests |-> IF r \in Holders THEN all_steps ELSE <<>>]
    /\ rslept = [r \in AllRequests |-> <<>>]
    /\ rsid = [r \in AllRequests |-> IF r \in Holders THEN r - 1 ELSE NoSid]
    /\ rattempt = [r \in AllRequests |-> IF r \in Holders THEN 1 ELSE 0]
    /\ rcode = [r \in AllRequests |-> IF r \in Holders THEN 200 ELSE 0]
    /\ rbrowser = [r \in AllRequests |-> NoBrowser]
    /\ live = [r \in AllRequests |-> r \in Holders]
    /\ deleted = [r \in AllRequests |-> {}]
    /\ DISPLAY = NoDisplay
    /\ original_display = [r \in AllRequests |-> NoDisplay]
    /\ SESSION_TO_KEYS = PoolSids
    /\ InitAgents

InitSessions(m, impls) == InitSessionsHeld(m, impls, {0})

\* what the sessions router and the display helpers own
sessionOnlyVars == <<mode, displayAllocation, SESSIONS_MAP, current_session_id,
                     SESSION_ID_TO_PORTS, USED_DISPLAY_NUMS, USED_VNC_PORTS,
                     USED_WEB_PORTS, SESSION_ID_TO_BROWSER_SESSION,
                     SESSION_PROCESSES, proc, ignores_term, browser, rpc, rkind,
                     rsteps, rslept, rsid, rattempt, rcode, rbrowser, live, deleted, DISPLAY,
                     original_display, SESSION_TO_KEYS>>
loggingVars == <<bu_handlers, bu_level, sys_stdout, bu_prev_level, saved_stdout,
                 tee_orig, appended>>
agentVars == <<SESSION_ID_TO_AGENT_MAP, apc, asid, abrowser, acode, astate, cmd, ncmd,
               loggingVars>>
serviceVars == <<consumerVars, progressVars, ingestVars, sseVars, callVars>>
otherVars == <<serviceVars, agentVars>>

\* requests are numbered in the order in which they arrive
InFlight == {q \in Requests : rpc[q] \notin {"idle", "done"}}
Arrives(r) ==
    /\ rpc[r] = "idle"
    /\ \A q \in Requests : q < r => rpc[q] # "idle"
    /\ Cardinality(InFlight) < MaxInFlight

\* fault budget: creates whose display chain failed, and sessions whose
\* children ignore SIGTERM
Failures ==
    {q \in Requests : /\ rkind[q] = "create"
                      /\ \/ rcode[q] = 500
                         \/ rpc[q] \in {"stopping", "backoff"}
                         \/ rattempt[q] > 1}
Stubborn == {q \in AllRequests : ignores_term[q] # {}}
MayFail(r) == Cardinality(Failures \cup {r}) <= MaxFailures
WithinBudget(r, outcome, ign) ==
    /\ outcome # "ok" => MayFail(r)
    /\ ign # {} => Cardinality(Stubborn) < MaxStubborn

set_used(a, v) ==
    /\ USED_DISPLAY_NUMS' = [USED_DISPLAY_NUMS EXCEPT ![a.display] = v]
    /\ USED_VNC_PORTS' = [USED_VNC_PORTS EXCEPT ![a.vnc] = v]
    /\ USED_WEB_PORTS' = [USED_WEB_PORTS EXCEPT ![a.web] = v]

returns(r, code) ==
    /\ rpc' = [rpc EXCEPT ![r] = "done"]
    /\ rcode' = [rcode EXCEPT ![r] = code]

cfgVars == <<mode, displayAllocation>>
envVars == <<DISPLAY, original_display>>

\* original_display = os.environ.get("DISPLAY"); os.environ["DISPLAY"] = display
set_display(r, display) ==
    /\ original_display' = [original_display EXCEPT ![r] = DISPLAY]
    /\ DISPLAY' = display

\* the finally block: put original_display back, or delete the variable;
\* the local ends with the call
restore_display(r) ==
    /\ DISPLAY' = original_display[r]
    /\ original_display' = [original_display EXCEPT ![r] = NoDisplay]
usedVars == <<USED_DISPLAY_NUMS, USED_VNC_PORTS, USED_WEB_PORTS>>

\* a search for a free slot that never offers the last one
free_sessions_but_last(M) == {sid \in PoolSids : ~M[sid] /\ sid # PoolSize - 1}

\* the session ids whose flag in SESSIONS_MAP is False
free_sessions(M) == {sid \in PoolSids : ~M[sid]}

\* POST /sessions of the pooled router, up to the first await or the return
create_session_pooled(r, outcome, xvfb_alive, ign) ==
    /\ mode = "pooled"
    /\ Arrives(r)
    /\ WithinBudget(r, outcome, ign)
    /\ rkind' = [rkind EXCEPT ![r] = "create"]
    /\ LET free == free_sessions(SESSIONS_MAP)
       IN  IF free = {}
           THEN /\ returns(r, 503)
                /\ UNCHANGED <<SESSIONS_MAP, usedVars, proc, SESSION_PROCESSES,
                               rsid, ignores_term, rsteps, rslept, rattempt, live>>
           ELSE IF Min(free) \notin SESSION_TO_KEYS
           THEN \* SESSION_TO_VNC_PORT[session_id] raises KeyError; the except
                \* branch puts the flag back and answers 500
                /\ rsid' = [rsid EXCEPT ![r] = Min(free)]
                /\ returns(r, 500)
                /\ UNCHANGED <<SESSIONS_MAP, usedVars, proc, SESSION_PROCESSES,
                               ignores_term, rsteps, rslept, rattempt, live>>
           ELSE LET sid == Min(free)
                    a == pooled_args(sid)
                    W0 == [World EXCEPT !.sids[r] = sid, !.ign[r] = ign]
                    b == create_browser_session(W0, r, sid, a, outcome, xvfb_alive)
                IN  /\ rsid' = W0.sids
                    /\ ignores_term' = W0.ign
                    /\ proc' = b.w.proc
                    /\ SESSION_PROCESSES' = b.w.sp
                    /\ rsteps' = IF ~b.raised /\ first_await(displayAllocation) = "start"
                                 THEN launch(b.w.log, r) ELSE b.w.log
                    /\ UNCHANGED rslept
                    /\ IF b.raised
                       THEN /\ SESSIONS_MAP' = [[SESSIONS_MAP EXCEPT ![sid] = TRUE]
                                                   EXCEPT ![sid] = FALSE]
                            /\ set_used(a, FALSE)
                            /\ returns(r, 500)
                            /\ UNCHANGED <<rattempt, live>>
                       ELSE /\ SESSIONS_MAP' = [SESSIONS_MAP EXCEPT ![sid] = TRUE]
                            /\ set_used(a, TRUE)
                            /\ rpc' = [rpc EXCEPT ![r] = first_await(displayAllocation)]
                            /\ rattempt' = [rattempt EXCEPT ![r] =
                                  IF displayAllocation = "serverless" THEN 0 ELSE 1]
                            /\ live' = [live EXCEPT ![r] = TRUE]
                            /\ UNCHANGED rcode
    /\ IF rpc'[r] = "start"
       THEN set_display(r, args_of(rsid'[r]).display)
       ELSE UNCHANGED envVars
    /\ UNCHANGED <<cfgVars, current_session_id, SESSION_ID_TO_PORTS,
                   SESSION_ID_TO_BROWSER_SESSION, browser, rbrowser, deleted,
                   SESSION_TO_KEYS, otherVars>>

\* POST /sessions of the single-session router, up to the first await or
\* the return
create_session_single(r, outcome, xvfb_alive, ign) ==
    /\ mode = "single"
    /\ Arrives(r)
    /\ WithinBudget(r, outcome, ign)
    /\ rkind' = [rkind EXCEPT ![r] = "create"]
    /\ IF current_session_id # NoSid
       THEN /\ returns(r, 503)
            /\ UNCHANGED <<current_session_id, SESSION_ID_TO_PORTS, usedVars, proc,
                           SESSION_PROCESSES, rsid, ignores_term, rsteps, rslept, rattempt, live>>
       ELSE LET sid == generate_session_id(r)
                a == single_args
                W0 == [World EXCEPT !.sids[r] = sid, !.ign[r] = ign,
                                    !.mapped = SESSION_ID_TO_PORTS \cup {sid}]
                b == create_browser_session(W0, r, sid, a, outcome, xvfb_alive)
            IN  /\ rsid' = W0.sids
                /\ ignores_term' = W0.ign
                /\ SESSION_ID_TO_PORTS' = W0.mapped
                /\ proc' = b.w.proc
                /\ SESSION_PROCESSES' = b.w.sp
                /\ rsteps' = IF ~b.raised /\ first_await(displayAllocation) = "start"
                             THEN launch(b.w.log, r) ELSE b.w.log
                /\ UNCHANGED rslept
                /\ IF b.raised
                   THEN /\ current_session_id' = NoSid
                        /\ set_used(a, FALSE)
                        /\ returns(r, 500)
                        /\ UNCHANGED <<rattempt, live>>
                   ELSE /\ current_session_id' = sid
                        /\ set_used(a, TRUE)
                        /\ rpc' = [rpc EXCEPT ![r] = first_await(displayAllocation)]
                        /\ rattempt' = [rattempt EXCEPT ![r] = 0]
                        /\ live' = [live EXCEPT ![r] = TRUE]
                        /\ UNCHANGED rcode
    /\ IF rpc'[r] = "start"
       THEN set_display(r, args_of(rsid'[r]).display)
       ELSE UNCHANGED envVars
    /\ UNCHANGED <<cfgVars, SESSIONS_MAP, SESSION_ID_TO_BROWSER_SESSION, browser,
                   rbrowser, deleted, SESSION_TO_KEYS, otherVars>>

\* await asyncio.sleep(2) after the display chain is over
sleep_returns(r) ==
    /\ rpc[r] = "sleep"
    /\ rpc' = [rpc EXCEPT ![r] = "start"]
    /\ rattempt' = [rattempt EXCEPT ![r] = 1]
    /\ set_display(r, args_of(rsid[r]).display)
    /\ rsteps' = launch(rsteps, r)
    /\ UNCHANGED rslept
    /\ UNCHANGED <<cfgVars, SESSIONS_MAP, current_session_id, SESSION_ID_TO_PORTS,
                   usedVars, SESSION_ID_TO_BROWSER_SESSION, SESSION_PROCESSES, proc,
                   ignores_term, browser, rkind, rsid, rcode, rbrowser, live,
                   deleted, SESSION_TO_KEYS, otherVars>>

\* await session.start() returns or raises
session_start_returns(r, ok) ==
    /\ rpc[r] = "start"
    /\ ~ok => MayFail(r)
    /\ rpc' = [rpc EXCEPT ![r] = IF ok THEN "settle" ELSE "stopping"]
    /\ browser' = [browser EXCEPT ![r] = IF ok THEN "running" ELSE @]
    /\ UNCHANGED <<envVars, cfgVars, SESSIONS_MAP, current_session_id, SESSION_ID_TO_PORTS,
                   usedVars, SESSION_ID_TO_BROWSER_SESSION, SESSION_PROCESSES, proc,
                   ignores_term, rsteps, rslept, rkind, rsid, rattempt, rcode, rbrowser, live,
                   deleted, SESSION_TO_KEYS, otherVars>>

\* the router registers the browser handle and answers 200
register(r) ==
    /\ SESSION_ID_TO_BROWSER_SESSION' =
           [SESSION_ID_TO_BROWSER_SESSION EXCEPT ![rsid[r]] = r]
    /\ returns(r, 200)

\* await asyncio.sleep(3) after the browser started
settle_returns(r) ==
    /\ rpc[r] = "settle"
    /\ IF displayAllocation = "serverless"
       THEN register(r)
       ELSE /\ rpc' = [rpc EXCEPT ![r] = "probe"]
            /\ UNCHANGED <<SESSION_ID_TO_BROWSER_SESSION, rcode>>
    /\ IF displayAllocation = "serverless"
       THEN restore_display(r)
       ELSE UNCHANGED envVars
    /\ UNCHANGED <<cfgVars, SESSIONS_MAP, current_session_id, SESSION_ID_TO_PORTS,
                   usedVars, SESSION_PROCESSES, proc, ignores_term, rsteps, rslept, browser, rkind,
                   rsid, rattempt, rbrowser, live, deleted, SESSION_TO_KEYS, otherVars>>

\* await session.navigate_to("about:blank") returns or raises
probe_returns(r, ok) ==
    /\ rpc[r] = "probe"
    /\ ~ok => MayFail(r)
    /\ IF ok
       THEN register(r)
       ELSE /\ rpc' = [rpc EXCEPT ![r] = "stopping"]
            /\ UNCHANGED <<SESSION_ID_TO_BROWSER_SESSION, rcode>>
    /\ IF ok THEN restore_display(r) ELSE UNCHANGED envVars
    /\ UNCHANGED <<cfgVars, SESSIONS_MAP, current_session_id, SESSION_ID_TO_PORTS,
                   usedVars, SESSION_PROCESSES, proc, ignores_term, rsteps, rslept, browser, rkind,
                   rsid, rattempt, rbrowser, live, deleted, SESSION_TO_KEYS, otherVars>>

\* the except branch of the router after create_browser_session raised
release_on_error(r) ==
    IF mode = "pooled"
    THEN /\ SESSIONS_MAP' = [SESSIONS_MAP EXCEPT ![rsid[r]] = FALSE]
         /\ set_used(pooled_args(rsid[r]), FALSE)
         /\ UNCHANGED current_session_id
    ELSE /\ IF current_session_id # NoSid
            THEN current_session_id' = NoSid /\ set_used(single_args, FALSE)
            ELSE UNCHANGED <<current_session_id, usedVars>>
         /\ UNCHANGED SESSIONS_MAP

\* await session.stop() of a failed attempt returns
session_stop_returns(r) ==
    /\ rpc[r] = "stopping"
    /\ browser' = [browser EXCEPT ![r] = IF @ = "running" THEN "stopped" ELSE @]
    /\ IF rattempt[r] < retries
       THEN /\ rpc' = [rpc EXCEPT ![r] = "backoff"]
            /\ rslept' = [rslept EXCEPT ![r] = Append(@, backoff(rattempt[r]))]
            /\ UNCHANGED <<SESSIONS_MAP, current_session_id, usedVars,
                           SESSION_PROCESSES, proc, rcode, live>>
       ELSE LET W == attach_failed_cleanup(World, rsid[r])
            IN  /\ proc' = W.proc
                /\ SESSION_PROCESSES' = W.sp
                /\ release_on_error(r)
                /\ returns(r, 500)
                /\ live' = [live EXCEPT ![r] = FALSE]
                /\ UNCHANGED rslept
    /\ IF rattempt[r] < retries
       THEN UNCHANGED envVars
       ELSE restore_display(r)
    /\ UNCHANGED <<cfgVars, SESSION_ID_TO_PORTS, SESSION_ID_TO_BROWSER_SESSION,
                   ignores_term, rsteps, rkind, rsid, rattempt, rbrowser, deleted,
                   SESSION_TO_KEYS, otherVars>>

\* await asyncio.sleep(2 * attempt) returns; the next attempt starts
backoff_returns(r) ==
    /\ rpc[r] = "backoff"
    /\ rpc' = [rpc EXCEPT ![r] = "start"]
    /\ rattempt' = [rattempt EXCEPT ![r] = @ + 1]
    /\ rsteps' = launch(rsteps, r)
    /\ UNCHANGED rslept
    /\ UNCHANGED <<envVars, cfgVars, SESSIONS_MAP, current_session_id, SESSION_ID_TO_PORTS,
                   usedVars, SESSION_ID_TO_BROWSER_SESSION, SESSION_PROCESSES, proc,
                   ignores_term, browser, rkind, rsid, rcode, rbrowser, live,
                   deleted, SESSION_TO_KEYS, otherVars>>

\* the sessions a DELETE that passes its check removes
holders(sid) == {q \in AllRequests : live[q] /\ rsid[q] = sid}

\* a check that only asks whether the id is a key of SESSIONS_MAP
is_known_pooled(M, sid) == sid \in PoolSids

\* "session_id not in SESSIONS_MAP or not SESSIONS_MAP[session_id]", negated
is_active_pooled(M, sid) == sid \in PoolSids /\ M[sid]

\* DELETE /sessions/{sid} of the pooled router, up to the await of
\* browser_session.stop() or the return
delete_session_pooled(r, sid) ==
    /\ mode = "pooled"
    /\ Arrives(r)
    /\ rkind' = [rkind EXCEPT ![r] = "delete"]
    /\ rsid' = [rsid EXCEPT ![r] = sid]
    /\ IF ~is_active_pooled(SESSIONS_MAP, sid)
       THEN /\ returns(r, 404)
            /\ UNCHANGED <<SESSIONS_MAP, usedVars, proc, SESSION_PROCESSES,
                           rbrowser, live, deleted>>
       ELSE IF sid \notin SESSION_TO_KEYS
       THEN \* SESSION_TO_VNC_PORT[session_id] raises KeyError after the flag
            \* was cleared; the handler answers 500
            /\ SESSIONS_MAP' = [SESSIONS_MAP EXCEPT ![sid] = FALSE]
            /\ live' = [q \in AllRequests |-> live[q] /\ q \notin holders(sid)]
            /\ returns(r, 500)
            /\ UNCHANGED <<usedVars, proc, SESSION_PROCESSES, rbrowser, deleted>>
       ELSE /\ SESSIONS_MAP' = [SESSIONS_MAP EXCEPT ![sid] = FALSE]
            /\ set_used(pooled_args(sid), FALSE)
            /\ deleted' = [deleted EXCEPT ![r] = holders(sid)]
            /\ live' = [q \in AllRequests |-> live[q] /\ q \notin holders(sid)]
            /\ IF SESSION_ID_TO_BROWSER_SESSION[sid] # NoBrowser
               THEN /\ rbrowser' = [rbrowser EXCEPT ![r] =
                                       SESSION_ID_TO_BROWSER_SESSION[sid]]
                    /\ rpc' = [rpc EXCEPT ![r] = "stop"]
                    /\ UNCHANGED <<proc, SESSION_PROCESSES, rcode>>
               ELSE LET W == cleanup_session_processes(
                                 [World EXCEPT !.sids[r] = sid], sid)
                    IN  /\ proc' = W.proc
                        /\ SESSION_PROCESSES' = W.sp
                        /\ returns(r, 200)
                        /\ UNCHANGED rbrowser
    /\ UNCHANGED <<envVars, cfgVars, current_session_id, SESSION_ID_TO_PORTS,
                   SESSION_ID_TO_BROWSER_SESSION, ignores_term, rsteps, rslept, browser, rattempt,
                   SESSION_TO_KEYS, otherVars>>

\* DELETE /sessions/{sid} of the single-session router, up to the await of
\* browser_session.stop() or the return
delete_session_single(r, sid) ==
    /\ mode = "single"
    /\ Arrives(r)
    /\ rkind' = [rkind EXCEPT ![r] = "delete"]
    /\ rsid' = [rsid EXCEPT ![r] = sid]
    /\ IF current_session_id = NoSid \/ current_session_id # sid
       THEN /\ returns(r, 404)
            /\ UNCHANGED <<current_session_id, SESSION_ID_TO_PORTS, usedVars, proc,
                           SESSION_PROCESSES, rbrowser, live, deleted>>
       ELSE /\ current_session_id' = NoSid
            /\ IF sid \in SESSION_ID_TO_PORTS
               THEN set_used(single_args, FALSE)
               ELSE UNCHANGED usedVars
            /\ deleted' = [deleted EXCEPT ![r] = holders(sid)]
            /\ live' = [q \in AllRequests |-> live[q] /\ q \notin holders(sid)]
            /\ IF SESSION_ID_TO_BROWSER_SESSION[sid] # NoBrowser
               THEN /\ rbrowser' = [rbrowser EXCEPT ![r] =
                                       SESSION_ID_TO_BROWSER_SESSION[sid]]
                    /\ rpc' = [rpc EXCEPT ![r] = "stop"]
                    /\ UNCHANGED <<SESSION_ID_TO_PORTS, proc, SESSION_PROCESSES,
                                   rcode>>
               ELSE LET W == cleanup_session_processes(
                                 [World EXCEPT !.sids[r] = sid,
                                               !.mapped = SESSION_ID_TO_PORTS \ {sid}],
                                 sid)
                    IN  /\ SESSION_ID_TO_PORTS' = W.mapped
                        /\ proc' = W.proc
                        /\ SESSION_PROCESSES' = W.sp
                        /\ returns(r, 200)
                        /\ UNCHANGED rbrowser
    /\ UNCHANGED <<envVars, cfgVars, SESSIONS_MAP, SESSION_ID_TO_BROWSER_SESSION,
                   ignores_term, rsteps, rslept, browser, rattempt, SESSION_TO_KEYS, otherVars>>

\* await browser_session.stop() of a DELETE returns or raises; the rest of
\* the handler runs
browser_stop_returns(r, ok) ==
    /\ rpc[r] = "stop"
    /\ browser' = [browser EXCEPT ![rbrowser[r]] = IF ok THEN "stopped" ELSE @]
    /\ IF SESSION_ID_TO_BROWSER_SESSION[rsid[r]] = NoBrowser
       THEN \* del raises KeyError: the handler answers 500
            /\ returns(r, 500)
            /\ UNCHANGED <<SESSION_ID_TO_BROWSER_SESSION, SESSION_ID_TO_PORTS, proc,
                           SESSION_PROCESSES>>
       ELSE LET W == cleanup_session_processes(
                         [World EXCEPT !.mapped =
                             IF mode = "single" THEN SESSION_ID_TO_PORTS \ {rsid[r]}
                             ELSE SESSION_ID_TO_PORTS],
                         rsid[r])
            IN  /\ SESSION_ID_TO_BROWSER_SESSION' =
                       [SESSION_ID_TO_BROWSER_SESSION EXCEPT ![rsid[r]] = NoBrowser]
                /\ SESSION_ID_TO_PORTS' = W.mapped
                /\ proc' = W.proc
                /\ SESSION_PROCESSES' = W.sp
                /\ returns(r, 200)
    /\ UNCHANGED <<envVars, cfgVars, SESSIONS_MAP, current_session_id, usedVars,
                   ignores_term, rsteps, rslept, rkind, rsid, rattempt, rbrowser, live, deleted,
                   SESSION_TO_KEYS, otherVars>>

(***************************************************************************)
(* Agents router (browser-use-serverless/app/routers/agents.py).  It reads *)
(* SESSIONS_MAP and SESSION_ID_TO_BROWSER_SESSION, which the pooled        *)
(* sessions router writes.                                                 *)
(***************************************************************************)
\* session ids an agents request names: the first slot, or an unknown id
AgentTargets == {0, UnknownSid}

\* "not SESSIONS_MAP.get(session_id, False)", negated
session_active(sid) == sid \in PoolSids /\ SESSIONS_MAP[sid]

\* SESSION_ID_TO_AGENT_MAP.get(session_id)
agent_of(sid) == IF sid \in PoolSids THEN SESSION_ID_TO_AGENT_MAP[sid] ELSE NoAgent

\* a POST /agents handler answers
agent_returns(a, code) ==
    /\ apc' = [apc EXCEPT ![a] = "done"]
    /\ acode' = [acode EXCEPT ![a] = code]

\* the request_id of the body: the calls name the Requests in turn
request_id_of(a) == FirstRequestId + ((a - 1) % MaxAgentRequestIds)

\* stream_key = f"{stream_name}:{request_id}"
stream_key(a) == request_id_of(a)

\* _remove_handlers_with_stream_key(bu, key)
remove_handlers_with_stream_key(handlers, key) ==
    {h \in handlers : stream_key(h) # key}

\* bu_prev_level = bu.level; the handler of this stream replaces earlier ones
\* of the same stream; bu.setLevel(logging.INFO)
attach_logging(a) ==
    /\ bu_prev_level' = [bu_prev_level EXCEPT ![a] = bu_level]
    /\ bu_handlers' = remove_handlers_with_stream_key(bu_handlers, stream_key(a)) \cup {a}
    /\ bu_level' = INFO

\* _stdout, _stderr = sys.stdout, sys.stderr; sys.stdout = _StdTee(_stdout, ...)
tee_streams(a) ==
    /\ saved_stdout' = [saved_stdout EXCEPT ![a] = sys_stdout]
    /\ tee_orig' = [tee_orig EXCEPT ![a] = sys_stdout]
    /\ sys_stdout' = a

\* Logger.callHandlers for a record of a browser_use.* logger (each of them
\* at INFO, propagate = True): every handler on "browser_use" emits it, and
\* RedisHandler.emit adds it to the handler's own stream_key
handled(handlers, a) == {<<stream_key(h), a>> : h \in handlers}

\* _StdTee.write of a line that matches agent_line, written to stream s:
\* self.orig.write(s) passes it down to the stream the tee wraps, then
\* r.xadd(stream_key, ...) adds it to the stream of the call that built the tee
RECURSIVE tees(_, _)
tees(s, orig) ==
    IF s \in Agents THEN {s} \cup tees(orig[s], orig) ELSE {}
written(s, orig, a) == {<<stream_key(t), a>> : t \in tees(s, orig)}

\* the probe lines before agent.run(): one record through the logger
\* browser_use.agent.service, one line through print
probe_lines(a) ==
    appended' = appended \cup handled(bu_handlers', a) \cup written(sys_stdout', tee_orig', a)

\* the finally block of create_agent: the streams, the handler and the level
\* are put back; the locals end with the call
detach_logging(a) ==
    /\ sys_stdout' = IF saved_stdout[a] # NoStream THEN saved_stdout[a] ELSE sys_stdout
    /\ bu_handlers' = bu_handlers \ {a}
    /\ bu_level' = bu_prev_level[a]
    /\ saved_stdout' = [saved_stdout EXCEPT ![a] = NoStream]
    /\ bu_prev_level' = [bu_prev_level EXCEPT ![a] = NOTSET]
    /\ UNCHANGED <<tee_orig, appended>>

\* POST /agents up to await agent.run(), or to the error answer
create_agent(a, sid, has_request_id, api_key) ==
    /\ apc[a] = "idle"
    /\ \A b \in Agents : b < a => apc[b] # "idle"
    /\ asid' = [asid EXCEPT ![a] = sid]
    /\ IF ~has_request_id
       THEN /\ agent_returns(a, 400)
            /\ UNCHANGED <<SESSION_ID_TO_AGENT_MAP, abrowser, astate, loggingVars>>
       ELSE IF ~api_key
       THEN /\ agent_returns(a, 500)
            /\ UNCHANGED <<SESSION_ID_TO_AGENT_MAP, abrowser, astate, loggingVars>>
       ELSE IF ~session_active(sid)
       THEN /\ agent_returns(a, 400)
            /\ UNCHANGED <<SESSION_ID_TO_AGENT_MAP, abrowser, astate, loggingVars>>
       ELSE IF SESSION_ID_TO_BROWSER_SESSION[sid] = NoBrowser
       THEN /\ agent_returns(a, 404)
            /\ UNCHANGED <<SESSION_ID_TO_AGENT_MAP, abrowser, astate, loggingVars>>
       ELSE /\ abrowser' = [abrowser EXCEPT ![a] = SESSION_ID_TO_BROWSER_SESSION[sid]]
            /\ SESSION_ID_TO_AGENT_MAP' = [SESSION_ID_TO_AGENT_MAP EXCEPT ![sid] = a]
            /\ astate' = [astate EXCEPT ![a] = "active"]
            /\ attach_logging(a)
            /\ tee_streams(a)
            /\ probe_lines(a)
            /\ apc' = [apc EXCEPT ![a] = "run"]
            /\ UNCHANGED acode
    /\ UNCHANGED <<sessionOnlyVars, cmd, ncmd, serviceVars>>

\* await agent.run() returns or raises; the finally block restores the
\* streams and the logger and leaves SESSION_ID_TO_AGENT_MAP as it is; no
\* branch writes to the requestProgress collection
agent_run_returns(a, ok) ==
    /\ apc[a] = "run"
    /\ agent_returns(a, IF ok THEN 200 ELSE 500)
    /\ detach_logging(a)
    /\ UNCHANGED <<sessionOnlyVars, SESSION_ID_TO_AGENT_MAP, asid, abrowser, astate,
                   cmd, ncmd, serviceVars>>

\* agent.run() logs a step through a browser_use.* logger
agent_logs(a) ==
    /\ apc[a] = "run"
    /\ appended' = appended \cup handled(bu_handlers, a)
    /\ UNCHANGED <<sessionOnlyVars, SESSION_ID_TO_AGENT_MAP, apc, asid, abrowser, acode,
                   astate, cmd, ncmd, bu_handlers, bu_level, sys_stdout, bu_prev_level,
                   saved_stdout, tee_orig, serviceVars>>

\* a control command answers
command_returns(sid, code) ==
    /\ ncmd < MaxCommands
    /\ ncmd' = ncmd + 1
    /\ cmd' = [sid |-> sid, code |-> code]

\* the guards stop, pause, resume and status share
command_guard(sid) ==
    IF ~session_active(sid) THEN 400
    ELSE IF agent_of(sid) = NoAgent THEN 404
    ELSE 200

\* GET /agents/{sid}/stop
stop_agent(sid) ==
    /\ command_returns(sid, command_guard(sid))
    /\ IF command_guard(sid) # 200
       THEN UNCHANGED <<SESSION_ID_TO_AGENT_MAP, astate, SESSIONS_MAP,
                        SESSION_ID_TO_BROWSER_SESSION, SESSION_TO_KEYS, usedVars,
                        proc, SESSION_PROCESSES, live>>
       ELSE LET W == cleanup_session_processes(World, sid)
            IN  /\ astate' = [astate EXCEPT ![agent_of(sid)] = "stopped"]
                /\ proc' = W.proc
                /\ SESSION_PROCESSES' = W.sp
                /\ SESSION_ID_TO_AGENT_MAP' =
                       [SESSION_ID_TO_AGENT_MAP EXCEPT ![sid] = NoAgent]
                /\ SESSIONS_MAP' = [SESSIONS_MAP EXCEPT ![sid] = FALSE]
                /\ SESSION_ID_TO_BROWSER_SESSION' =
                       [SESSION_ID_TO_BROWSER_SESSION EXCEPT ![sid] = NoBrowser]
                /\ SESSION_TO_KEYS' = SESSION_TO_KEYS \ {sid}
                /\ IF sid \in SESSION_TO_KEYS
                   THEN set_used(pooled_args(sid), FALSE)
                   ELSE UNCHANGED usedVars
                /\ live' = [q \in AllRequests |-> live[q] /\ q \notin holders(sid)]
    /\ UNCHANGED <<cfgVars, current_session_id, SESSION_ID_TO_PORTS, ignores_term,
                   browser, rpc, rkind, rsteps, rslept, rsid, rattempt, rcode, rbrowser, deleted,
                   envVars, apc, asid, abrowser, acode, loggingVars, serviceVars>>

\* GET /agents/{sid}/pause; ok: agent.pause() did not raise
pause_agent(sid, ok) ==
    /\ command_returns(sid,
                       IF command_guard(sid) = 200 /\ ~ok THEN 500
                       ELSE command_guard(sid))
    /\ astate' = IF command_guard(sid) = 200 /\ ok
                 THEN [astate EXCEPT ![agent_of(sid)] = "paused"]
                 ELSE astate
    /\ UNCHANGED <<sessionOnlyVars, SESSION_ID_TO_AGENT_MAP, apc, asid, abrowser,
                   acode, loggingVars, serviceVars>>

\* GET /agents/{sid}/resume; ok: agent.resume() did not raise
resume_agent(sid, ok) ==
    /\ command_returns(sid,
                       IF command_guard(sid) = 200 /\ ~ok THEN 500
                       ELSE command_guard(sid))
    /\ astate' = IF command_guard(sid) = 200 /\ ok
                 THEN [astate EXCEPT ![agent_of(sid)] = "active"]
                 ELSE astate
    /\ UNCHANGED <<sessionOnlyVars, SESSION_ID_TO_AGENT_MAP, apc, asid, abrowser,
                   acode, loggingVars, serviceVars>>

\* GET /agents/{sid}/status
get_agent_status(sid) ==
    /\ command_returns(sid, command_guard(sid))
    /\ UNCHANGED <<sessionOnlyVars, SESSION_ID_TO_AGENT_MAP, apc, asid, abrowser,
                   acode, astate, loggingVars, serviceVars>>

SingleTargets(r) == {generate_session_id(q) : q \in 1..(r - 1)}

(***************************************************************************)
(* Log relay (producerConsumer/.../api/sse_and_consumer.py) and the log     *)
(* writers.  The broker is Redis: a stream keeps its records, a channel    *)
(* hands a published message to the connections subscribed at that moment. *)
(***************************************************************************)
RequestConnIds == 1..MaxRequestConns
StreamConnIds == (MaxRequestConns + 1)..(MaxRequestConns + MaxStreamConns)
Conns == RequestConnIds \cup StreamConnIds
\* the message redis-py queues for the subscriber after pubsub.subscribe()
SubscribeConfirmation == 0
\* get_message returned None: the timeout expired
None == -1
\* no generator holds the event loop
NoConn == 0
NoIteration == [expired |-> FALSE, logs |-> 0, heartbeats |-> 0, errors |-> 0]

InitSse ==
    /\ log_stream = <<>>
    /\ published = 0
    /\ cpc = [c \in Conns |-> "idle"]
    /\ ckind = [c \in Conns |-> "none"]
    /\ last_id = [c \in Conns |-> 0]
    /\ pubsub = [c \in Conns |-> <<>>]
    /\ disconnected = [c \in Conns |-> FALSE]
    /\ delivered = [c \in Conns |-> <<>>]
    /\ iteration = [c \in Conns |-> NoIteration]
    /\ at_open = [c \in Conns |-> 0]
    /\ subscription = [c \in Conns |-> "none"]
    /\ loop_held = NoConn

notSseVars == <<consumerVars, progressVars, ingestVars, sessionVars, callVars>>

\* XADD with id '*': the broker gives the record the next id
xadd(stream) == Append(stream, Len(stream) + 1)

\* RedisHandler.emit: r.xadd(self.stream_key, {"msg": formatted})
emit ==
    /\ Len(log_stream) < MaxRecords
    /\ log_stream' = xadd(log_stream)
    /\ UNCHANGED <<published, cpc, ckind, last_id, pubsub, disconnected,
                   delivered, iteration, at_open, subscription, notSseVars>>
    /\ UNCHANGED loop_held

\* the connections whose pubsub object is subscribed to the channel
Subscribed == {c \in Conns : subscription[c] = "subscribed"}

\* r.publish(channel, ...): the message reaches the current subscribers
publish ==
    /\ published < MaxPublished
    /\ published' = published + 1
    /\ pubsub' = [c \in Conns |-> IF c \in Subscribed
                                  THEN Append(pubsub[c], published + 1)
                                  ELSE pubsub[c]]
    /\ UNCHANGED <<log_stream, cpc, ckind, last_id, disconnected, delivered,
                   iteration, at_open, subscription, notSseVars>>
    /\ UNCHANGED loop_held

\* a client opens; the connections of an endpoint are numbered in the
\* order they open
Opens(c, ids) ==
    /\ c \in ids
    /\ cpc[c] = "idle"
    /\ \A d \in ids : d < c => cpc[d] # "idle"

\* GET /stream-logs/{batch_id} on the log stream: last_id = '0-0'
stream_logs(c) ==
    /\ loop_held = NoConn
    /\ Opens(c, StreamConnIds)
    /\ cpc' = [cpc EXCEPT ![c] = "loop"]
    /\ ckind' = [ckind EXCEPT ![c] = "stream"]
    /\ last_id' = [last_id EXCEPT ![c] = 0]
    /\ at_open' = [at_open EXCEPT ![c] = Len(log_stream)]
    /\ UNCHANGED <<log_stream, published, pubsub, disconnected, delivered,
                   iteration, subscription, notSseVars>>
    /\ UNCHANGED loop_held

\* GET /stream-logs/request/{request_id} up to the connected event
stream_logs_by_request(c) ==
    /\ loop_held = NoConn
    /\ Opens(c, RequestConnIds)
    /\ cpc' = [cpc EXCEPT ![c] = "connected"]
    /\ ckind' = [ckind EXCEPT ![c] = "request"]
    /\ at_open' = [at_open EXCEPT ![c] = Len(log_stream)]
    /\ UNCHANGED <<log_stream, published, last_id, pubsub, disconnected, delivered,
                   iteration, subscription, notSseVars>>
    /\ UNCHANGED loop_held

\* a finally block that leaves the subscription open
cleanup_skipped(subs, c) == subs

\* finally: "if pubsub:" pubsub.unsubscribe(redis_channel); pubsub.close()
cleanup(subs, c) ==
    [subs EXCEPT ![c] = IF @ = "none" THEN "none" ELSE "closed"]

\* the generator ends: its finally block runs, the pubsub object is gone
generator_exits(c) ==
    /\ cpc' = [cpc EXCEPT ![c] = "closed"]
    /\ pubsub' = [pubsub EXCEPT ![c] = <<>>]
    /\ subscription' = cleanup(subscription, c)

\* pubsub = pubsub_redis.pubsub(); pubsub.subscribe(redis_channel) and the
\* status event; fails: subscribe raised (the broker cannot be reached), the
\* outer except sends the error event
subscribe(c, fails) ==
    /\ loop_held = NoConn
    /\ cpc[c] = "connected"
    /\ IF fails
       THEN /\ cpc' = [cpc EXCEPT ![c] = "closed"]
            /\ subscription' = cleanup([subscription EXCEPT ![c] = "opened"], c)
            /\ iteration' = [iteration EXCEPT ![c] = [NoIteration EXCEPT !.errors = 1]]
            /\ UNCHANGED pubsub
       ELSE /\ cpc' = [cpc EXCEPT ![c] = "loop"]
            /\ pubsub' = [pubsub EXCEPT ![c] = <<SubscribeConfirmation>>]
            /\ subscription' = [subscription EXCEPT ![c] = "subscribed"]
            /\ UNCHANGED iteration
    /\ UNCHANGED <<log_stream, published, ckind, last_id, disconnected, delivered,
                   at_open, notSseVars>>
    /\ UNCHANGED loop_held

\* the browser closes the EventSource
client_disconnects(c) ==
    /\ cpc[c] \in {"connected", "loop", "blocked", "sleep"}
    /\ ~disconnected[c]
    /\ disconnected' = [disconnected EXCEPT ![c] = TRUE]
    /\ UNCHANGED <<log_stream, published, cpc, ckind, last_id, pubsub, delivered,
                   iteration, at_open, subscription, notSseVars>>
    /\ UNCHANGED loop_held

\* pubsub.get_message(timeout=5.0)
get_message(queue) == IF queue = <<>> THEN None ELSE Head(queue)

\* a loop body that sends the heartbeat after every read
heartbeats_every_iteration(message) == 1

\* the else branch of "if message:"
heartbeats_of(message) == IF message = None THEN 1 ELSE 0

\* "if message['type'] == 'message'": one log event
logs_of(message) == IF message # None /\ message # SubscribeConfirmation THEN 1 ELSE 0

\* a read that runs on a worker thread and leaves the event loop free
holds_loop_never(c) == NoConn

\* pubsub.get_message(timeout=5.0) is called from the generator itself: the
\* event loop is inside the call until it returns
holds_loop(c) == c

\* what the loop body does with the message it read, up to
\* await asyncio.sleep(0.1)
handle_read(c, message) ==
    /\ cpc' = [cpc EXCEPT ![c] = "sleep"]
    /\ pubsub' = [pubsub EXCEPT ![c] = IF message = None THEN <<>> ELSE Tail(@)]
    /\ delivered' = [delivered EXCEPT ![c] =
                        IF logs_of(message) = 1 THEN Append(@, message) ELSE @]
    /\ iteration' = [iteration EXCEPT ![c] =
                        [expired |-> message = None,
                         logs |-> logs_of(message),
                         heartbeats |-> heartbeats_of(message),
                         errors |-> 0]]
    /\ UNCHANGED subscription

\* one iteration of the loop of stream_logs_by_request, up to
\* await asyncio.sleep(0.1) or, when no message is waiting, up to the point
\* where get_message starts to wait; fails: get_message raised
poll_request(c, fails) ==
    /\ loop_held = NoConn
    /\ ckind[c] = "request"
    /\ cpc[c] = "loop"
    /\ IF disconnected[c]
       THEN /\ generator_exits(c)
            /\ UNCHANGED <<delivered, iteration, loop_held>>
       ELSE IF fails
       THEN /\ generator_exits(c)
            /\ iteration' = [iteration EXCEPT ![c] = [NoIteration EXCEPT !.errors = 1]]
            /\ UNCHANGED <<delivered, loop_held>>
       ELSE IF pubsub[c] = <<>>
       THEN /\ cpc' = [cpc EXCEPT ![c] = "blocked"]
            /\ loop_held' = holds_loop(c)
            /\ UNCHANGED <<pubsub, delivered, iteration, subscription>>
       ELSE /\ handle_read(c, get_message(pubsub[c]))
            /\ UNCHANGED loop_held
    /\ UNCHANGED <<log_stream, published, ckind, last_id, disconnected, at_open,
                   notSseVars>>

\* get_message returns after waiting: with a message that was published
\* meanwhile, or with None when the 5 seconds are over
get_message_returns(c) ==
    /\ ckind[c] = "request"
    /\ cpc[c] = "blocked"
    /\ handle_read(c, get_message(pubsub[c]))
    /\ loop_held' = NoConn
    /\ UNCHANGED <<log_stream, published, ckind, last_id, disconnected, at_open,
                   notSseVars>>

\* await asyncio.sleep(0.1) returns
poll_sleep_returns(c) ==
    /\ loop_held = NoConn
    /\ cpc[c] = "sleep"
    /\ cpc' = [cpc EXCEPT ![c] = "loop"]
    /\ UNCHANGED <<log_stream, published, ckind, last_id, pubsub, disconnected,
                   delivered, iteration, at_open, subscription, notSseVars>>
    /\ UNCHANGED loop_held

\* XREAD streams={key: last_id} block=5000: the records after last_id
xread(stream, last) == SelectSeq(stream, LAMBDA id : id > last)

\* a loop that remembers the first id of the batch it read
first_id_of(stream_messages) == stream_messages[1]

\* last_id = stream_messages[-1][0]
last_id_of(stream_messages) == stream_messages[Len(stream_messages)]

\* one iteration of the loop of stream_logs; fails: xread raised
poll_stream(c, fails) ==
    /\ loop_held = NoConn
    /\ ckind[c] = "stream"
    /\ cpc[c] = "loop"
    /\ IF disconnected[c] \/ fails
       THEN /\ cpc' = [cpc EXCEPT ![c] = "closed"]
            /\ UNCHANGED <<last_id, delivered, iteration>>
       ELSE LET response == xread(log_stream, last_id[c])
            IN  /\ delivered' = [delivered EXCEPT ![c] = @ \o response]
                /\ last_id' = [last_id EXCEPT ![c] =
                                  IF response # <<>> THEN last_id_of(response) ELSE @]
                /\ iteration' = [iteration EXCEPT ![c] =
                                    [expired |-> response = <<>>,
                                     logs |-> Len(response),
                                     heartbeats |-> 0,
                                     errors |-> 0]]
                /\ UNCHANGED cpc
    /\ UNCHANGED <<log_stream, published, ckind, pubsub, disconnected, at_open,
                   subscription, notSseVars>>
    /\ UNCHANGED loop_held

(***************************************************************************)
(* Helper functions.  Strings are sequences of one-character strings, so   *)
(* that case conversion and stripping are computed character by character. *)
(***************************************************************************)
\* str.upper() and str.lower(), letter by letter
LowerCase == 
    <<"a", "b", "c", "d", "e", "f", "g", "h", "i", "j", "k", "l", "m", "n",
     "o", "p", "q", "r", "s", "t", "u", "v", "w", "x", "y", "z">>
UpperCase == 
    <<"A", "B", "C", "D", "E", "F", "G", "H", "I", "J", "K", "L", "M", "N",
     "O", "P", "Q", "R", "S", "T", "U", "V", "W", "X", "Y", "Z">>
upper_char(c) ==
    IF \E i \in 1..Len(LowerCase) : LowerCase[i] = c
    THEN UpperCase[CHOOSE i \in 1..Len(LowerCase) : LowerCase[i] = c]
    ELSE c
lower_char(c) ==
    IF \E i \in 1..Len(UpperCase) : UpperCase[i] = c
    THEN LowerCase[CHOOSE i \in 1..Len(UpperCase) : UpperCase[i] = c]
    ELSE c
str_upper(s) == [i \in 1..Len(s) |-> upper_char(s[i])]
str_lower(s) == [i \in 1..Len(s) |-> lower_char(s[i])]

\* str.strip(): leading and trailing whitespace removed
RECURSIVE lstrip(_)
lstrip(s) == IF s # <<>> /\ Head(s) = " " THEN lstrip(Tail(s)) ELSE s
RECURSIVE rstrip(_)
rstrip(s) ==
    IF s # <<>> /\ s[Len(s)] = " " THEN rstrip(SubSeq(s, 1, Len(s) - 1)) ELSE s
strip(s) == rstrip(lstrip(s))

\* the values of the VendorName enum
VendorName == {<<"E", "v", "i", "c", "o", "r", "e">>, <<"C", "o", "h", "e", "r", "e">>}
UNKNOWN == <<"U", "N", "K", "N", "O", "W", "N">>

\* "for v in VendorName: if v.value.upper() == value: return v.value",
\* then "return value"
normalize_vendor(raw) ==
    LET value == str_upper(strip(raw))
    IN  IF \E v \in VendorName : str_upper(v) = value
        THEN CHOOSE v \in VendorName : str_upper(v) = value
        ELSE value

\* "field in payload and payload[field]": a field is the set of its values,
\* empty when the key is absent
present(field) == field # {} /\ (CHOOSE raw \in field : TRUE) # <<>>

\* SequentialBatchService._extract_vendor: the top-level vendorname, else
\* the vendorname of a nested object, else "UNKNOWN"
extract_vendor(payload) ==
    IF present(payload.vendorname)
    THEN normalize_vendor(CHOOSE raw \in payload.vendorname : TRUE)
    ELSE IF present(payload.meta)
    THEN normalize_vendor(CHOOSE raw \in payload.meta : TRUE)
    ELSE UNKNOWN

\* vendor strings a payload may carry: two known names and one other name,
\* in three casings, with and without surrounding blanks, the empty string
\* and a blank
VendorWords == VendorName \cup {<<"A", "e", "t", "n", "a">>}
VendorStrings ==
    {l \o w \o r : l \in {<<>>, <<" ">>}, r \in {<<>>, <<" ">>},
                   w \in UNION {{v, str_upper(v), str_lower(v)} : v \in VendorWords}}
        \cup {<<>>, <<" ">>}
VendorFields == {{}} \cup {{raw} : raw \in VendorStrings}
Payloads == [vendorname : VendorFields, meta : VendorFields]

\* a helper returns
returns_value(v) ==
    /\ ~result.done
    /\ result' = [done |-> TRUE, value |-> v]
    /\ UNCHANGED <<call, consumerVars, progressVars, ingestVars, sessionVars, sseVars>>

\* _extract_vendor(payload) is called and returns
extract_vendor_returns ==
    /\ call.op = "extract_vendor"
    /\ returns_value(extract_vendor(call.arg))

\* paths an agent may name: the two whitelisted by create_agent and another
FilePaths == {"/app/tmp/test_document.pdf", "/app/tmp/test_document.txt", "/etc/passwd"}
\* what get_dom_element_by_index finds at the index
DomElements == {"none", "not_file_input", "file_input"}

\* a check that takes every path for an existing file
path_exists_always(files, path) == TRUE

\* os.path.exists(path)
path_exists(files, path) == path \in files

\* ActionResult(error=...) without an event
upload_error == [error |-> TRUE, events |-> <<>>]

\* upload_file(index, path, browser_session, available_file_paths) on a
\* filesystem holding `files`; dispatch_ok: awaiting the event did not raise
upload_file(a) ==
    IF a.path \notin a.available_file_paths THEN upload_error
    ELSE IF ~path_exists(a.files, a.path) THEN upload_error
    ELSE IF a.dom_element = "none" THEN upload_error
    ELSE IF a.dom_element # "file_input" THEN upload_error
    ELSE [error |-> ~a.dispatch_ok,
          events |-> <<[type |-> "UploadFileEvent", file_path |-> a.path]>>]

UploadCalls ==
    [op : {"upload_file"}, path : FilePaths, available_file_paths : SUBSET FilePaths,
     files : SUBSET FilePaths, dom_element : DomElements, dispatch_ok : BOOLEAN]

\* upload_file is called and returns
upload_file_returns ==
    /\ call.op = "upload_file"
    /\ returns_value(upload_file(call))

\* no POST was sent to the webhook
NoPost == [request_id |-> 0, session_id |-> NoSid]

\* human_in_the_loop(request_id, session_id, browser_session): agent is the
\* control flag of SESSION_ID_TO_AGENT_MAP.get(session_id) ("none": no entry),
\* pause_ok: agent.pause() does not raise, webhook_url: HITL_WEBHOOK_URL is
\* set, post: the status the webhook answers with, or "raises"
human_in_the_loop(c) ==
    LET body == [request_id |-> c.request_id, session_id |-> c.session_id]
    IN  IF c.agent = "none" \/ ~c.pause_ok
        THEN [raised |-> FALSE, error |-> TRUE, agent |-> c.agent,
              posted |-> NoPost, answer |-> "none"]
        ELSE IF ~c.webhook_url
        THEN [raised |-> FALSE, error |-> TRUE, agent |-> "paused",
              posted |-> NoPost, answer |-> "none"]
        ELSE [raised |-> FALSE, error |-> c.post # "200", agent |-> "paused",
              posted |-> body, answer |-> c.post]

HitlCalls ==
    [op : {"human_in_the_loop"}, request_id : FirstRequestId..(FirstRequestId + 1),
     session_id : {0, 1}, agent : {"none", "active"}, pause_ok : BOOLEAN,
     webhook_url : BOOLEAN, post : {"200", "500", "raises"}]

\* human_in_the_loop is called and returns
human_in_the_loop_returns ==
    /\ call.op = "human_in_the_loop"
    /\ returns_value(human_in_the_loop(call))

\* the status strings, spelled out
S_action_needed == <<"a", "c", "t", "i", "o", "n", "_", "n", "e", "e", "d", "e", "d">>
S_completed == <<"c", "o", "m", "p", "l", "e", "t", "e", "d">>
S_created == <<"c", "r", "e", "a", "t", "e", "d">>
S_failed == <<"f", "a", "i", "l", "e", "d">>
S_in_progress == <<"i", "n", "_", "p", "r", "o", "g", "r", "e", "s", "s">>
S_manual_action == <<"m", "a", "n", "u", "a", "l", "-", "a", "c", "t", "i", "o", "n">>
S_processing == <<"p", "r", "o", "c", "e", "s", "s", "i", "n", "g">>
S_queued == <<"q", "u", "e", "u", "e", "d">>
S_running == <<"r", "u", "n", "n", "i", "n", "g">>
S_succeeded == <<"s", "u", "c", "c", "e", "e", "d", "e", "d">>
S_user_action_required == 
    <<"u", "s", "e", "r", "_", "a", "c", "t", "i", "o", "n",
     "_", "r", "e", "q", "u", "i", "r", "e", "d">>
S_pending == <<"p", "e", "n", "d", "i", "n", "g">>

\* dict.get(key, default) on a dict written as its set of items
dict_get(items, key, default) ==
    IF \E kv \in items : kv[1] = key
    THEN (CHOOSE kv \in items : kv[1] = key)[2]
    ELSE default

\* status_mapping of services/mongodb_service.py
status_mapping ==
    {<<S_in_progress, S_running>>,
     <<S_failed, S_failed>>,
     <<S_created, S_queued>>,
     <<S_user_action_required, S_manual_action>>,
     <<S_completed, S_completed>>,
     <<S_succeeded, S_completed>>,
     <<S_processing, S_running>>,
     <<S_action_needed, S_manual_action>>}

\* status_mapping of planner-backend/api/dashboard_api.py
dashboard_status_mapping ==
    {<<S_in_progress, S_running>>,
     <<S_failed, S_failed>>,
     <<S_created, S_queued>>,
     <<S_user_action_required, S_manual_action>>,
     <<S_completed, S_completed>>,
     <<S_succeeded, S_completed>>,
     <<S_processing, S_running>>,
     <<S_action_needed, S_manual_action>>}

\* a lookup of the status as it is stored, without lower()
map_status_exact(db_status) == dict_get(status_mapping, db_status, db_status)

\* map_status_for_frontend of the ingestor service
map_status_for_frontend(db_status) ==
    dict_get(status_mapping, str_lower(db_status), db_status)

\* map_status_for_frontend of the dashboard API
dashboard_map_status_for_frontend(db_status) ==
    dict_get(dashboard_status_mapping, str_lower(db_status), db_status)

\* the spellings of a word: lower case, upper case, and one letter raised
Spellings(w) ==
    {w, str_upper(w)} \cup {[w EXCEPT ![i] = upper_char(w[i])] : i \in 1..Len(w)}

\* statuses a caller may pass: the keys of the mapping, the labels and a
\* status that is neither, in every spelling
StatusStrings ==
    UNION {Spellings(kv[1]) \cup Spellings(kv[2]) : kv \in status_mapping}
        \cup Spellings(S_pending)

\* both copies of map_status_for_frontend are called on a status and return
map_status_returns ==
    /\ call.op = "map_status_for_frontend"
    /\ returns_value([service |-> map_status_for_frontend(call.db_status),
                      dashboard |-> dashboard_map_status_for_frontend(call.db_status)])

vars == <<redis_data, hpc, hmsg, hacks, hexit, claimed_by, request_progress, put_answer,
          batch_metadata, batch_requests, publish_futures, topic, ipc, ilen, ii,
          mode, displayAllocation, SESSIONS_MAP, current_session_id,
          SESSION_ID_TO_PORTS, USED_DISPLAY_NUMS, USED_VNC_PORTS,
          USED_WEB_PORTS, SESSION_ID_TO_BROWSER_SESSION, SESSION_PROCESSES,
          proc, ignores_term, browser, rpc, rkind, rsteps, rslept, rsid, rattempt, rcode,
          rbrowser, live, deleted, DISPLAY, original_display,
          SESSION_TO_KEYS, SESSION_ID_TO_AGENT_MAP, apc, asid, abrowser,
          acode, astate, cmd, ncmd, bu_handlers, bu_level, sys_stdout,
          bu_prev_level, saved_stdout, tee_orig, appended, log_stream, published, cpc, ckind, last_id,
          pubsub, disconnected, delivered, iteration, at_open, subscription,
          loop_held, call, result>>

InitConsumerSpec ==
    /\ InitConsumer
    /\ InitIngest
    /\ InitSse
    /\ InitSessions("pooled", {"serverless"})
    /\ request_progress = {[requestId |-> r, status |-> "created"] : r \in RequestIds}
    /\ put_answer = NoPut
    /\ InitCalls

InitIngestSpec ==
    /\ InitIngest
    /\ InitSse
    /\ InitConsumer
    /\ InitSessions("pooled", {"serverless"})
    /\ request_progress = {}
    /\ put_answer = NoPut
    /\ InitCalls

NextIngest ==
    \/ \E b \in Batches, n \in 0..MaxBatchLen : process_complete_batch(b, n)
    \/ \E b \in Batches, db \in DbOutcomes : ingest_iteration(b, db)
    \/ \E b \in Batches, j \in 1..MaxBatchLen, ok \in BOOLEAN : broker_resolves(b, j, ok)
    \/ \E b \in Batches : ingest_commit(b)

SpecIngest == InitIngestSpec /\ [][NextIngest]_vars

InitPooledSpec ==
    /\ InitSessions("pooled", {"app", "serverless"})
    /\ InitConsumer
    /\ InitIngest
    /\ InitSse
    /\ request_progress = {}
    /\ put_answer = NoPut
    /\ InitCalls

InitSingleSpec ==
    /\ InitSessions("single", {"serverless"})
    /\ InitConsumer
    /\ InitIngest
    /\ InitSse
    /\ request_progress = {}
    /\ put_answer = NoPut
    /\ InitCalls

NextPooled ==
    \/ \E r \in Requests, outcome \in StartOutcomes, xvfb_alive \in BOOLEAN,
          ign \in IgnoreTermChoices :
          create_session_pooled(r, outcome, xvfb_alive, ign)
    \/ \E r \in Requests, sid \in DeleteTargets : delete_session_pooled(r, sid)
    \/ \E r \in Requests : sleep_returns(r)
    \/ \E r \in Requests, ok \in BOOLEAN : session_start_returns(r, ok)
    \/ \E r \in Requests : settle_returns(r)
    \/ \E r \in Requests, ok \in BOOLEAN : probe_returns(r, ok)
    \/ \E r \in Requests : session_stop_returns(r)
    \/ \E r \in Requests : backoff_returns(r)
    \/ \E r \in Requests, ok \in BOOLEAN : browser_stop_returns(r, ok)

NextSingle ==
    \/ \E r \in Requests, outcome \in StartOutcomes, xvfb_alive \in BOOLEAN,
          ign \in IgnoreTermChoices :
          create_session_single(r, outcome, xvfb_alive, ign)
    \/ \E r \in Requests : \E sid \in SingleTargets(r) : delete_session_single(r, sid)
    \/ \E r \in Requests : sleep_returns(r)
    \/ \E r \in Requests, ok \in BOOLEAN : session_start_returns(r, ok)
    \/ \E r \in Requests : settle_returns(r)
    \/ \E r \in Requests : session_stop_returns(r)
    \/ \E r \in Requests : backoff_returns(r)
    \/ \E r \in Requests, ok \in BOOLEAN : browser_stop_returns(r, ok)

SpecPooled == InitPooledSpec /\ [][NextPooled]_vars

\* the pooled service when nearly every slot is already held
InitPoolBusySpec ==
    /\ InitSessionsHeld("pooled", {"app", "serverless"},
                        (PoolSize - MaxFreeAtStart)..PoolSize)
    /\ InitConsumer
    /\ InitIngest
    /\ InitSse
    /\ request_progress = {}
    /\ put_answer = NoPut
    /\ InitCalls

\* the session requests that arrive beside the agent calls: in the pooled
\* service after the requests that made the ready sessions
AgentsRequests == 1..(MaxReadyAtStart + MaxAgentsRequests)
SingleRequests == 1..MaxSingleRequests

\* the requests that arrive at the nearly full pool
BusyRequests == 1..MaxBusyRequests

NextPoolBusy ==
    \/ \E r \in BusyRequests, outcome \in StartOutcomes, xvfb_alive \in BOOLEAN,
          ign \in IgnoreTermChoices :
          create_session_pooled(r, outcome, xvfb_alive, ign)
    \/ \E r \in BusyRequests, sid \in DeleteTargets : delete_session_pooled(r, sid)
    \/ \E r \in BusyRequests : sleep_returns(r)
    \/ \E r \in BusyRequests, ok \in BOOLEAN : session_start_returns(r, ok)
    \/ \E r \in BusyRequests : settle_returns(r)
    \/ \E r \in BusyRequests, ok \in BOOLEAN : probe_returns(r, ok)
    \/ \E r \in BusyRequests : session_stop_returns(r)
    \/ \E r \in BusyRequests : backoff_returns(r)
    \/ \E r \in BusyRequests, ok \in BOOLEAN : browser_stop_returns(r, ok)

SpecPoolBusy == InitPoolBusySpec /\ [][NextPoolBusy]_vars
SpecSingle == InitSingleSpec /\ [][NextSingle]_vars

\* the single-session service with its agents router: the callers of
\* /agents name the session the service holds
HeldSids == {current_session_id} \ {NoSid}
NextSingleAgents ==
    \/ \E r \in SingleRequests, outcome \in StartOutcomes, xvfb_alive \in BOOLEAN,
          ign \in IgnoreTermChoices :
          create_session_single(r, outcome, xvfb_alive, ign)
    \/ \E r \in SingleRequests : \E sid \in SingleTargets(r) : delete_session_single(r, sid)
    \/ \E r \in SingleRequests : sleep_returns(r)
    \/ \E r \in SingleRequests, ok \in BOOLEAN : session_start_returns(r, ok)
    \/ \E r \in SingleRequests : settle_returns(r)
    \/ \E r \in SingleRequests : session_stop_returns(r)
    \/ \E r \in SingleRequests : backoff_returns(r)
    \/ \E r \in SingleRequests, ok \in BOOLEAN : browser_stop_returns(r, ok)
    \/ \E a \in Agents, sid \in HeldSids, has_request_id \in BOOLEAN,
          api_key \in BOOLEAN : create_agent(a, sid, has_request_id, api_key)
    \/ \E sid \in HeldSids : stop_agent(sid)
    \/ \E sid \in HeldSids, ok \in BOOLEAN : pause_agent(sid, ok)
    \/ \E sid \in HeldSids, ok \in BOOLEAN : resume_agent(sid, ok)
    \/ \E sid \in HeldSids : get_agent_status(sid)

SpecSingleAgents == InitSingleSpec /\ [][NextSingleAgents]_vars

\* the pooled sessions router together with the agents router, from the
\* state in which MaxReadyAtStart sessions are ready
InitAgentsSpec ==
    /\ InitSessionsReady("pooled", {"serverless"}, MaxReadyAtStart)
    /\ InitConsumer
    /\ InitIngest
    /\ InitSse
    /\ request_progress = {[requestId |-> request_id_of(a), status |-> "in_progress"] :
                               a \in Agents}
    /\ put_answer = NoPut
    /\ InitCalls

NextAgents ==
    \/ \E r \in AgentsRequests, outcome \in StartOutcomes, xvfb_alive \in BOOLEAN,
          ign \in IgnoreTermChoices :
          create_session_pooled(r, outcome, xvfb_alive, ign)
    \/ \E r \in AgentsRequests, sid \in DeleteTargets : delete_session_pooled(r, sid)
    \/ \E r \in AgentsRequests : sleep_returns(r)
    \/ \E r \in AgentsRequests, ok \in BOOLEAN : session_start_returns(r, ok)
    \/ \E r \in AgentsRequests : settle_returns(r)
    \/ \E r \in AgentsRequests : session_stop_returns(r)
    \/ \E r \in AgentsRequests : backoff_returns(r)
    \/ \E r \in AgentsRequests, ok \in BOOLEAN : browser_stop_returns(r, ok)
    \/ \E a \in Agents, sid \in AgentTargets, has_request_id \in BOOLEAN,
          api_key \in BOOLEAN : create_agent(a, sid, has_request_id, api_key)
    \/ \E a \in Agents, ok \in BOOLEAN : agent_run_returns(a, ok)
    \/ \E sid \in AgentTargets : stop_agent(sid)
    \/ \E sid \in AgentTargets, ok \in BOOLEAN : pause_agent(sid, ok)
    \/ \E sid \in AgentTargets, ok \in BOOLEAN : resume_agent(sid, ok)
    \/ \E sid \in AgentTargets : get_agent_status(sid)

SpecAgents == InitAgentsSpec /\ [][NextAgents]_vars

\* the same two routers while sessions are deleted and granted again: two
\* session requests beside the calls of one agent
TeardownRequests == 1..(MaxReadyAtStart + MaxTeardownRequests)
TeardownAgents == 1..MaxTeardownAgents

NextTeardown ==
    \/ \E r \in TeardownRequests, outcome \in StartOutcomes, xvfb_alive \in BOOLEAN,
          ign \in IgnoreTermChoices :
          create_session_pooled(r, outcome, xvfb_alive, ign)
    \/ \E r \in TeardownRequests, sid \in DeleteTargets : delete_session_pooled(r, sid)
    \/ \E r \in TeardownRequests : sleep_returns(r)
    \/ \E r \in TeardownRequests, ok \in BOOLEAN : session_start_returns(r, ok)
    \/ \E r \in TeardownRequests : settle_returns(r)
    \/ \E r \in TeardownRequests : session_stop_returns(r)
    \/ \E r \in TeardownRequests : backoff_returns(r)
    \/ \E r \in TeardownRequests, ok \in BOOLEAN : browser_stop_returns(r, ok)
    \/ \E a \in TeardownAgents, sid \in AgentTargets, has_request_id \in BOOLEAN,
          api_key \in BOOLEAN : create_agent(a, sid, has_request_id, api_key)
    \/ \E a \in TeardownAgents, ok \in BOOLEAN : agent_run_returns(a, ok)
    \/ \E sid \in AgentTargets : stop_agent(sid)
    \/ \E sid \in AgentTargets, ok \in BOOLEAN : pause_agent(sid, ok)
    \/ \E sid \in AgentTargets, ok \in BOOLEAN : resume_agent(sid, ok)
    \/ \E sid \in AgentTargets : get_agent_status(sid)

SpecTeardown == InitAgentsSpec /\ [][NextTeardown]_vars

\* POST /agents calls and control commands on ready sessions, with the
\* records the agents log
NextAgentLogs ==
    \/ \E a \in Agents, sid \in AgentTargets, has_request_id \in BOOLEAN,
          api_key \in BOOLEAN : create_agent(a, sid, has_request_id, api_key)
    \/ \E a \in Agents : agent_logs(a)
    \/ \E a \in Agents, ok \in BOOLEAN : agent_run_returns(a, ok)
    \/ \E sid \in AgentTargets : stop_agent(sid)
    \/ \E sid \in AgentTargets, ok \in BOOLEAN : pause_agent(sid, ok)
    \/ \E sid \in AgentTargets, ok \in BOOLEAN : resume_agent(sid, ok)
    \/ \E sid \in AgentTargets : get_agent_status(sid)

SpecAgentLogs == InitAgentsSpec /\ [][NextAgentLogs]_vars

\* the log relay with its writers
InitSseSpec ==
    /\ InitSse
    /\ InitConsumer
    /\ InitIngest
    /\ InitSessions("pooled", {"serverless"})
    /\ request_progress = {}
    /\ put_answer = NoPut
    /\ InitCalls

NextSse ==
    \/ emit
    \/ publish
    \/ \E c \in Conns : stream_logs(c)
    \/ \E c \in Conns : stream_logs_by_request(c)
    \/ \E c \in Conns, fails \in BOOLEAN : subscribe(c, fails)
    \/ \E c \in Conns : client_disconnects(c)
    \/ \E c \in Conns, fails \in BOOLEAN : poll_request(c, fails)
    \/ \E c \in Conns : get_message_returns(c)
    \/ \E c \in Conns : poll_sleep_returns(c)
    \/ \E c \in Conns, fails \in BOOLEAN : poll_stream(c, fails)

SpecSse == InitSseSpec /\ [][NextSse]_vars

\* the event loop resumes a generator that can run, and a blocking read
\* returns within its timeout
FairSse ==
    \A c \in Conns :
        /\ WF_vars(\E fails \in BOOLEAN : poll_request(c, fails))
        /\ WF_vars(get_message_returns(c))
        /\ WF_vars(poll_sleep_returns(c))
        /\ WF_vars(\E fails \in BOOLEAN : subscribe(c, fails))

SpecSseLive == SpecSse /\ FairSse

NextConsumer ==
    \/ \E h \in Handlers, m \in Messages : handle_message(h, m)
    \/ \E h \in Handlers, o \in PlannerOutcomes : planner_returns(h, o)

NextDispatch ==
    \/ NextConsumer
    \/ \E r \in RequestIds, st \in StatusValues : update_request_status(r, st)

SpecConsumer == InitConsumerSpec /\ [][NextConsumer]_vars

\* the consumer over a time span in which cache keys reach their expiry
CacheKeys == {inflight_key(q) : q \in ReqIds} \cup {processed_key(q) : q \in ReqIds}
NextConsumerTtl ==
    \/ \E h \in Handlers, m \in Messages : handle_message(h, m)
    \/ \E h \in Handlers, o \in PlannerOutcomes : planner_returns(h, o)
    \/ \E key \in CacheKeys : ttl_elapses(key)

SpecConsumerTtl == InitConsumerSpec /\ [][NextConsumerTtl]_vars

\* request ids no ingest has written a progress row for
UnknownRequestIds ==
    (FirstRequestId + MaxRequestIds)..(FirstRequestId + MaxRequestIds + MaxUnknownIds - 1)

\* the status endpoint on its own: the known Requests have a row, callers
\* name known and unknown ids
NextProgress ==
    \E r \in RequestIds \cup UnknownRequestIds, st \in StatusValues :
        update_request_status(r, st)

SpecProgress == InitConsumerSpec /\ [][NextProgress]_vars

\* cleanup_session_processes called for session_00 whose four children were
\* spawned by request 1; states: which of them are still running
CleanupCalls ==
    [op : {"cleanup_session_processes"}, impl : {"app", "serverless"},
     states : [ProcKinds -> {"running", "exited"}], ign : IgnoreTermChoices,
     mapped : BOOLEAN]

\* the World a cleanup call starts from
cleanup_world(c) ==
    [World EXCEPT !.impl = c.impl,
                  !.sids[1] = 0,
                  !.ign[1] = c.ign,
                  !.mapped = IF c.mapped THEN {0} ELSE {},
                  !.sp[0] = tracked_procs(1),
                  !.proc = [q \in ProcIds |->
                               IF q[1] = 1 THEN c.states[q[2]] ELSE proc[q]]]

\* cleanup_session_processes is called and returns
cleanup_returns ==
    /\ call.op = "cleanup_session_processes"
    /\ LET W == cleanup_session_processes(cleanup_world(call), 0)
       IN  returns_value([signals |-> W.signals,
                          proc |-> [k \in ProcKinds |-> W.proc[<<1, k>>]],
                          tracked |-> W.sp[0]])

\* the services as they are after start-up
InitServices ==
    /\ InitConsumer
    /\ InitIngest
    /\ InitSse
    /\ InitSessions("pooled", {"serverless"})
    /\ request_progress = {}
    /\ put_answer = NoPut

\* vendor extraction applied to every payload of Payloads
InitVendorSpec ==
    /\ InitServices
    /\ call \in {[op |-> "extract_vendor", arg |-> payload] : payload \in Payloads}
    /\ result = NoResult

SpecVendor == InitVendorSpec /\ [][extract_vendor_returns]_vars

\* upload_file applied to every call of UploadCalls
InitUploadSpec ==
    /\ InitServices
    /\ call \in UploadCalls
    /\ result = NoResult

SpecUpload == InitUploadSpec /\ [][upload_file_returns]_vars

\* human_in_the_loop applied to every call of HitlCalls
InitHitlSpec ==
    /\ InitServices
    /\ call \in HitlCalls
    /\ result = NoResult

SpecHitl == InitHitlSpec /\ [][human_in_the_loop_returns]_vars

\* process cleanup applied to every call of CleanupCalls
InitCleanupSpec ==
    /\ InitServices
    /\ call \in CleanupCalls
    /\ result = NoResult

SpecCleanup == InitCleanupSpec /\ [][cleanup_returns]_vars

\* the status mapping applied to every status of StatusStrings
InitStatusSpec ==
    /\ InitServices
    /\ call \in {[op |-> "map_status_for_frontend", db_status |-> st] : st \in StatusStrings}
    /\ result = NoResult

SpecStatus == InitStatusSpec /\ [][map_status_returns]_vars

SpecDispatch == InitConsumerSpec /\ [][NextDispatch]_vars

(***************************************************************************)
(* Dispatch consumer: claims.                                              *)
(***************************************************************************)
\* every req_id the cache can be keyed by
DedupKeys == ReqIdAttrs \cup MessageIds

WellFormed(h) == h \in Delivered /\ hmsg[h].body # Malformed

\* the handlers whose POST the planner answered 2xx, per body request_id
Answered2xx(r) == {h \in Handlers : hexit[h] = "2xx" /\ hmsg[h].body = r}

\* the handlers that made a POST to the planner
Posted(H) == {h \in H : hpc[h] = "planner" \/ hexit[h] \in PlannerOutcomes}

\* C2: for every request-id carried in a message body, the planner answers
\* 2xx to at most one POST carrying it, with or without a req_id attribute.
C2_AtMostOneSuccessPerRequestId ==
    \A r \in RequestIds : Cardinality(Answered2xx(r)) <= 1

\* the well-formed deliveries whose req_id attribute is R
WithAttr(R) == {h \in Handlers : WellFormed(h) /\ hmsg[h].req_id = R}

Holding(k) == {h \in Handlers : hpc[h] = "planner" /\ req_id_for(hmsg[h]) = k}

C9_RunningHasInflightLock ==
    \A p \in request_progress :
        p.status = "in_progress" =>
            Cardinality({k \in redis_data : k = inflight_key(p.requestId)}) = 1

(***************************************************************************)
(* Batch ingestor: claims.                                                 *)
(***************************************************************************)
RowsOf(b) == {r \in batch_requests : r.batch_id = b}

ProgressOf(request_id) == {p \in request_progress : p.requestId = request_id}

\* C10: when ingest of a batch of N payloads has returned, exactly N Request
\* rows exist for the batch, their sequence numbers are 1..N in input order,
\* their request-ids are pairwise distinct, and each request-id has exactly
\* one progress row, with status created.
C10_IngestWritesNRows ==
    \A b \in Batches :
        ipc[b] = "done" =>
            /\ Cardinality(RowsOf(b)) = ilen[b]
            /\ {StrToInt(r.sequence_no) : r \in RowsOf(b)} = 1..ilen[b]
            /\ \A r \in RowsOf(b) : StrToInt(r.sequence_no) = r.payload + 1
            /\ Cardinality({r.request_id : r \in RowsOf(b)}) = ilen[b]
            /\ \A r \in RowsOf(b) :
                  /\ Cardinality(ProgressOf(r.request_id)) = 1
                  /\ \A p \in ProgressOf(r.request_id) : p.status = "created"

\* a batch of three payloads has been ingested and its call has returned
C10_Witness ==
    \E b \in Batches :
        /\ ipc[b] = "done" /\ ilen[b] = 3
        /\ Cardinality(RowsOf(b)) = 3
        /\ Cardinality(request_progress) = 3

\* ---------------------------------------------------------------------
\* Browser sessions: claims
\* ---------------------------------------------------------------------
ChildrenOf(q) == {p \in ProcIds : p[1] = q}
NoneRunning(P, q) == \A p \in ChildrenOf(q) : P[p] # "running"
Live == {q \in AllRequests : live[q]}

\* C1: in pooled mode, whatever the interleaving of create_session and
\* delete_session calls, no two sessions that are active at the same time
\* hold the same display number, VNC port or web port: a slot is granted
\* to one caller at a time.
C1_NoSharedSlot ==
    mode = "pooled" =>
        \A q1, q2 \in Live :
            q1 # q2 =>
                /\ pooled_args(rsid[q1]).display # pooled_args(rsid[q2]).display
                /\ pooled_args(rsid[q1]).vnc # pooled_args(rsid[q2]).vnc
                /\ pooled_args(rsid[q1]).web # pooled_args(rsid[q2]).web

\* C4: when create_session fails after its slot was allocated, at the
\* moment it answers 500 the slot is free, no browser handle is registered
\* for the session id and none of the processes it spawned is running.
C4_FailedCreateLeavesNothing ==
    [][\A r \in Requests :
          (rkind'[r] = "create" /\ rcode[r] = 0 /\ rcode'[r] = 500
              /\ mode = "pooled" /\ displayAllocation = "serverless") =>
              /\ ~SESSIONS_MAP'[rsid'[r]]
              /\ SESSION_ID_TO_BROWSER_SESSION'[rsid'[r]] # r
              /\ NoneRunning(proc', r)]_vars

\* C5: once delete_session(S) has answered 200, every child process
\* spawned for S has exited, also when it ignores SIGTERM.
C5_DeleteLeavesNoChild ==
    \A d \in Requests :
        (rkind[d] = "delete" /\ rpc[d] = "done" /\ rcode[d] = 200) =>
            \A q \in deleted[d] : NoneRunning(proc, q)

\* C6: in single-session mode at most one session exists at every
\* instant, whatever the interleaving of requests.
C6_AtMostOneSession ==
    mode = "single" => Cardinality(Live) <= 1

\* ---------------------------------------------------------------------
\* Batch ingestor: publishing claims
\* ---------------------------------------------------------------------
FuturesOf(b) == publish_futures[b]
Returned(b) == ipc[b] \in {"done", "failed"}
SomeFailed(b) == \E j \in 1..Len(FuturesOf(b)) : FuturesOf(b)[j] = "failed"

\* C11: a batch has status published only when the broker has acknowledged
\* the publish of every one of its N messages.
C11_PublishedOnlyAfterAllAcks ==
    \A b \in Batches :
        batch_metadata[b] = "published" =>
            /\ Len(FuturesOf(b)) = ilen[b]
            /\ \A j \in 1..ilen[b] :
                   /\ FuturesOf(b)[j] = "acked"
                   /\ message_data(b, j - 1) \in topic

C11_Witness ==
    \E b \in Batches :
        /\ batch_metadata[b] = "published"
        /\ ilen[b] = MaxBatchLen
        /\ Len(FuturesOf(b)) = MaxBatchLen

IsActive(sid) ==
    IF mode = "pooled" THEN sid \in PoolSids /\ SESSIONS_MAP[sid]
    ELSE current_session_id # NoSid /\ current_session_id = sid

NoCreateRunning == \A r \in Requests : rpc[r] \in {"idle", "done"}

\* C15: whenever every create_browser_session call has returned or raised,
\* DISPLAY has the value it had before the first call began (here: unset).
C15_DisplayRestored ==
    NoCreateRunning => DISPLAY = NoDisplay

(***************************************************************************)
(* Agents router: claims.                                                  *)
(***************************************************************************)
\* the POST /agents calls that are inside await agent.run()
RunningAgents == {a \in Agents : apc[a] = "run"}

\* C16: at most one agent is running per session: no two POST /agents calls
\* are inside agent.run() with the same session id and the same browser
\* session.
C16_OneAgentPerSession ==
    \A a \in RunningAgents, b \in RunningAgents :
        (asid[a] = asid[b] /\ abrowser[a] = abrowser[b]) => a = b

\* the session a create request was granted has been deleted, stopped or
\* released
TornDown(q) == rkind[q] = "create" /\ rsid[q] # NoSid /\ ~live[q]

\* C17: no agent is bound to the browser of a session whose teardown has
\* begun, and a control command is accepted only for a session id that a
\* session not yet torn down holds.
C17_TeardownForbidsCommands ==
    [][/\ \A a \in Agents :
            (apc[a] = "idle" /\ apc'[a] = "run") => ~TornDown(abrowser'[a])
       /\ (ncmd' # ncmd /\ cmd'.code = 200) =>
            \E q \in AllRequests : live[q] /\ rsid[q] = cmd'.sid]_vars

(***************************************************************************)
(* Log relay: claims.                                                      *)
(***************************************************************************)
RequestConns == {c \in Conns : ckind[c] = "request"}

\* the connection has sent a heartbeat: its read found nothing more to send
CaughtUp(c) == iteration[c].heartbeats = 1

\* C18: a client of /stream-logs/request/R that has reached its heartbeats
\* has been sent, in append order, a log event for every record that was
\* in browser_use_logs:R when it opened.
C18_ReplaysEarlierRecords ==
    \A c \in RequestConns :
        CaughtUp(c) =>
            /\ Len(delivered[c]) >= at_open[c]
            /\ \A i \in 1..at_open[c] : delivered[c][i] = log_stream[i]

\* C19: on every SSE connection the log events carry strictly increasing
\* broker ids: append order is kept and no record is sent twice.
C19_LogEventsInOrder ==
    \A c \in Conns :
        \A i \in 1..Len(delivered[c]), j \in 1..Len(delivered[c]) :
            i < j => delivered[c][i] < delivered[c][j]

\* a stream connection that has sent every record over at least two reads,
\* and a request connection that has sent every published message
C19_Witness ==
    /\ \E c \in Conns : /\ ckind[c] = "stream"
                        /\ Len(delivered[c]) = MaxRecords
                        /\ iteration[c].logs < MaxRecords
                        /\ iteration[c].logs > 0
    /\ \E c \in RequestConns : Len(delivered[c]) = MaxPublished

\* what C20 says about one iteration of the per-request loop
HeartbeatRule(c) ==
    /\ iteration[c].expired => iteration[c].heartbeats = 1
    /\ iteration[c].logs > 0 => iteration[c].heartbeats = 0
    /\ iteration[c].heartbeats <= 1

\* the connection is about to read, nothing waits for it, the client is there
IdlePolling(c) ==
    /\ ckind[c] = "request"
    /\ cpc[c] = "loop"
    /\ pubsub[c] = <<>>
    /\ ~disconnected[c]

\* C20: an iteration of the per-request loop whose read expired sends exactly
\* one heartbeat, one that delivered a record sends none; and a connection
\* that polls an idle channel is sent a heartbeat unless a message arrives,
\* the client disconnects or the read fails first.
C20_HeartbeatWhenIdle ==
    /\ [](\A c \in RequestConns : HeartbeatRule(c))
    /\ \A c \in Conns :
          IdlePolling(c) ~> \/ cpc[c] = "sleep" /\ iteration[c].heartbeats = 1
                            \/ pubsub[c] # <<>>
                            \/ disconnected[c]
                            \/ cpc[c] = "closed"

\* a connection has sent a log event in one iteration and a heartbeat in a
\* later one
C20_Witness ==
    \E c \in RequestConns :
        /\ cpc[c] = "sleep"
        /\ iteration[c].expired
        /\ iteration[c].heartbeats = 1
        /\ Len(delivered[c]) > 0

\* the generator of the connection has ended
Ended(c) == ckind[c] = "request" /\ cpc[c] = "closed"

NoAgentRunning == \A a \in Agents : apc[a] # "run"

\* C22: the RedisHandler of a POST /agents call that has returned is not
\* attached to the browser_use logger, and once no call is running
\* sys.stdout, sys.stderr and the logger level are what they were before the
\* first call.
C22_LoggingRestored ==
    /\ \A a \in Agents : apc[a] = "done" => a \notin bu_handlers
    /\ NoAgentRunning => /\ sys_stdout = OriginalStream
                         /\ bu_level = NOTSET

\* the agent run of the call raised and the call answered 500
AgentFailed(a) == apc[a] = "done" /\ acode[a] = 500 /\ astate[a] # "none"

\* C23: when the agent run of a POST /agents call raised, the call answers
\* 500 and the progress row of its Request has status failed.
C23_AgentFailureSetsFailed ==
    \A a \in Agents :
        (apc[a] = "done" /\ astate[a] # "none" /\ acode[a] # 200) =>
            /\ acode[a] = 500
            /\ {p.status : p \in ProgressOf(request_id_of(a))} = {"failed"}

\* C24: a status update that names a request id without a progress row is
\* answered 404 and leaves the id without a row.
C24_UnknownRequestNotFound ==
    [][\A r \in RequestIds \cup UnknownRequestIds :
          (ProgressOf(r) = {} /\ \E st \in StatusValues : update_request_status(r, st))
              => /\ put_answer'.code = 404
                 /\ {p \in request_progress' : p.requestId = r} = {}]_vars

\* the vendor field a payload is read by: the top-level one unless it is
\* missing or empty
vendor_field(payload) ==
    IF present(payload.vendorname) THEN payload.vendorname ELSE payload.meta

\* the known vendors whose name equals the string up to case and
\* surrounding blanks
KnownAs(raw) == {v \in VendorName : str_lower(v) = str_lower(strip(raw))}

\* C25: vendor extraction returns the canonical name when the vendor field
\* names a known vendor up to case and surrounding blanks, and UNKNOWN when
\* the field is missing, empty or names no known vendor.
C25_VendorKnownOrUnknown ==
    (call.op = "extract_vendor" /\ result.done) =>
        LET field == vendor_field(call.arg)
        IN  IF present(field) /\ KnownAs(CHOOSE raw \in field : TRUE) # {}
            THEN result.value \in KnownAs(CHOOSE raw \in field : TRUE)
            ELSE result.value = UNKNOWN

\* C26: a submission of an empty batch is answered 400 and writes nothing:
\* no batch metadata, no Request row, no progress row, no publish.
C26_EmptyBatchRejected ==
    [][\A b \in Batches :
          (ipc[b] = "idle" /\ ipc'[b] # "idle" /\ ilen'[b] = 0)
              => /\ ipc'[b] = "rejected"
                 /\ UNCHANGED <<batch_metadata, batch_requests, request_progress,
                                publish_futures, topic>>]_vars

\* an empty batch was answered 400
C26_Witness ==
    \E b \in Batches :
        /\ ipc[b] = "rejected"
        /\ batch_metadata[b] = "none"
        /\ RowsOf(b) = {}

\* the path of the call is whitelisted and names an existing file
Allowed(a) == a.path \in a.available_file_paths /\ a.path \in a.files

\* C27: upload_file puts an upload event on the event bus only for a path
\* that is in the whitelist and exists, and the event names that path; for
\* every other path it returns an error result and dispatches nothing.
C27_UploadOnlyAllowedPaths ==
    (call.op = "upload_file" /\ result.done) =>
        /\ result.value.events # <<>> => Allowed(call)
        /\ \A i \in 1..Len(result.value.events) :
               result.value.events[i].file_path = call.path
        /\ ~Allowed(call) => result.value.error /\ result.value.events = <<>>

\* an upload was dispatched for an allowed path although another path of
\* the whitelist does not exist
C27_Witness ==
    /\ call.op = "upload_file"
    /\ result.done
    /\ Len(result.value.events) = 1
    /\ ~result.value.error
    /\ call.available_file_paths \ call.files # {}

\* the status is the word up to letter case
Spells(db_status, w) == str_upper(db_status) = str_upper(w)

\* the label the spec's table gives a status, the status itself when the
\* table has no row for it
LabelOf(db_status) ==
    IF Spells(db_status, S_in_progress) \/ Spells(db_status, S_processing) THEN S_running
    ELSE IF Spells(db_status, S_created) THEN S_queued
    ELSE IF Spells(db_status, S_user_action_required) \/ Spells(db_status, S_action_needed)
    THEN S_manual_action
    ELSE IF Spells(db_status, S_completed) \/ Spells(db_status, S_succeeded) THEN S_completed
    ELSE IF Spells(db_status, S_failed) THEN S_failed
    ELSE db_status

InTable(db_status) ==
    \E w \in {S_in_progress, S_processing, S_created, S_user_action_required,
               S_action_needed, S_completed, S_succeeded, S_failed} : Spells(db_status, w)

\* C28: the status mapping gives in_progress and processing the label
\* running, created queued, user_action_required and action_needed
\* manual-action, completed and succeeded completed, failed failed, in any
\* letter case; and the copy of the ingestor service and the copy of the
\* dashboard API return the same label for every status.
C28_StatusMapping ==
    (call.op = "map_status_for_frontend" /\ result.done) =>
        /\ InTable(call.db_status) => result.value.service = LabelOf(call.db_status)
        /\ result.value.dashboard = result.value.service

\* a status of the table in a spelling that is not all lower case was
\* mapped to another word
C28_Witness ==
    /\ call.op = "map_status_for_frontend"
    /\ result.done
    /\ InTable(call.db_status)
    /\ call.db_status # str_lower(call.db_status)
    /\ result.value.service = S_manual_action
    /\ result.value.dashboard = S_manual_action

(***************************************************************************)
(* Pooled sessions router: slot reuse during a delete.                     *)
(***************************************************************************)
\* the DELETE calls suspended at await browser_session.stop()
DeletesInProgress(rk, pc) == {d \in Requests : rk[d] = "delete" /\ pc[d] = "stop"}

\* the processes in the Popen lists of SESSION_PROCESSES
tracked(sp) == UNION {Range(sp[sid]) : sid \in DOMAIN sp}

\* the sessions created on the slot of DELETE call d that d did not find
\* there when it began
newer_sessions(d) ==
    {q \in AllRequests : live[q] /\ rsid[q] = rsid[d] /\ q \notin deleted[d]}

\* C29: in pooled mode no create_session is granted a slot while a
\* delete_session of that slot is still awaiting the browser stop or has not
\* yet cleaned up its processes, and the step that finishes a delete_session
\* neither terminates nor untracks a process of a newer session on the slot.
C29_DeleteExcludesRegrant ==
    [][/\ \A d \in DeletesInProgress(rkind', rpc') :
            \A q \in AllRequests : ~(live'[q] /\ rsid'[q] = rsid'[d])
       /\ \A d \in DeletesInProgress(rkind, rpc) :
            rpc'[d] # "stop" =>
               \A q \in newer_sessions(d) : \A k \in ProcKinds :
                  /\ proc'[<<q, k>>] = proc[<<q, k>>]
                  /\ <<q, k>> \in tracked(SESSION_PROCESSES) =>
                        <<q, k>> \in tracked(SESSION_PROCESSES')]_vars

(***************************************************************************)
(* create_browser_session: order of the start-up steps.                    *)
(***************************************************************************)
\* every occurrence of step b in the history comes after an occurrence of
\* step a
Before(steps, a, b) ==
    \A j \in DOMAIN steps : steps[j] = b => \E i \in 1..(j - 1) : steps[i] = a

launches(r) == Cardinality({j \in DOMAIN rsteps[r] : rsteps[r][j] = "browser"})

\* C31: create_browser_session attempts the browser launch at most 3 times
\* and sleeps 2*attempt seconds after failed attempt number `attempt`; the
\* step that ends it with success hands out the browser handle and touches
\* no process, and it ends with a failure only after the third failed
\* attempt, with the session's process list cleaned up.
C31_AttachLoop ==
    [][\A r \in Requests :
          /\ launches(r)' <= retries
          /\ \A i \in DOMAIN rslept'[r] : rslept'[r][i] = 2 * i
          /\ (rpc[r] = "stopping" /\ rpc'[r] = "backoff") =>
                /\ rattempt[r] < retries
                /\ Len(rslept'[r]) = launches(r)
          /\ (rpc[r] \in {"settle", "probe"} /\ rpc'[r] = "done") =>
                /\ rcode'[r] = 200
                /\ SESSION_ID_TO_BROWSER_SESSION'[rsid[r]] = r
                /\ proc' = proc
                /\ SESSION_PROCESSES' = SESSION_PROCESSES
          /\ (rpc[r] = "stopping" /\ rpc'[r] = "done") =>
                /\ launches(r) = retries
                /\ rslept[r] = <<2, 4>>
                /\ rcode'[r] = 500
                /\ SESSION_PROCESSES'[rsid[r]] = <<>>]_vars

\* a create request slept 2 and 4 seconds, failed its third attempt and was
\* answered 500
C31_Witness ==
    \E r \in Requests :
        /\ rkind[r] = "create"
        /\ rcode[r] = 500
        /\ launches(r) = retries
        /\ rslept[r] = <<2, 4>>

(***************************************************************************)
(* Process cleanup: order of the signals.                                  *)
(***************************************************************************)
\* position of a child in the order in which the session spawned it
spawn_position(q) == CHOOSE i \in 1..4 : tracked_procs(1)[i] = q

\* the signals of one kind a cleanup call sent, in order
signals_of(sig) == SelectSeq(result.value.signals, LAMBDA x : x.sig = sig)

\* the children that were running at the call and ignore SIGTERM
survivors == {k \in ProcKinds : call.states[k] = "running" /\ k \in call.ign}

\* C32: process cleanup sends the graceful terminate to the session's
\* children in reverse spawn order (proxy, VNC server, geometry, display
\* server), then waits, then force-kills exactly the children that are still
\* running, and these end up exited.
C32_ReverseOrderCleanup ==
    (call.op = "cleanup_session_processes" /\ result.done) =>
        LET term == signals_of("TERM")
            killed == signals_of("KILL")
        IN  /\ result.value.signals = term \o killed
            /\ \A i \in DOMAIN term : \A j \in DOMAIN term :
                  i < j => spawn_position(term[i].proc) > spawn_position(term[j].proc)
            /\ {x.proc[2] : x \in Range(killed)} = survivors
            /\ \A k \in survivors : result.value.proc[k] = "exited"

(***************************************************************************)
(* delete_session: order of its steps.                                     *)
(***************************************************************************)
\* C33: delete_session stops the agent, stops the browser handle, cleans up
\* the processes and only then releases the slot: the step that marks the
\* slot of a DELETE call free leaves no process of the session tracked, and
\* when the call is answered 200 no agent is bound to the session.
C33_DeleteOrder ==
    [][\A d \in Requests :
          /\ (/\ rkind'[d] = "delete"
              /\ rpc[d] = "idle"
              /\ rsid'[d] \in PoolSids
              /\ SESSIONS_MAP[rsid'[d]]
              /\ ~SESSIONS_MAP'[rsid'[d]]) =>
                SESSION_PROCESSES'[rsid'[d]] = <<>>
          /\ (/\ rkind'[d] = "delete"
              /\ rpc[d] # "done"
              /\ rpc'[d] = "done"
              /\ rcode'[d] = 200) =>
                SESSION_ID_TO_AGENT_MAP'[rsid'[d]] = NoAgent]_vars

(***************************************************************************)
(* The fixed pool.                                                         *)
(***************************************************************************)
\* a later create_session that picks this slot gets its display and ports
acquirable(sid) == sid \in SESSION_TO_KEYS

\* C34: after any sequence of create_session, delete_session and agent-stop
\* operations every slot of the pool still has its (display, VNC port, web
\* port) assignment, so every slot that is free can be acquired by a later
\* create_session.
C34_PoolIntact ==
    /\ SESSION_TO_KEYS = PoolSids
    /\ \A sid \in free_sessions(SESSIONS_MAP) : acquirable(sid)

(***************************************************************************)
(* Log relay: the event loop during a blocking read.                       *)
(***************************************************************************)
\* C35: while a client of the per-request log stream waits for a record, the
\* read does not hold the event loop: no generator is ever inside a blocking
\* call on the loop, so every other generator of the process can be resumed.
C35_ReadOffEventLoop ==
    \A c \in RequestConns : cpc[c] = "blocked" => loop_held = NoConn

(***************************************************************************)
(* Dispatch consumer: whose inflight lock a handler releases.              *)
(***************************************************************************)
\* handler h ends its planner call in this step
Completes(h) == hpc[h] = "planner" /\ hpc'[h] = "done"

\* C36: a handler releases only the inflight lock it claimed itself: when a
\* handler completes while the inflight key of its req_id is in the cache by
\* the claim of another handler (its own claim having expired), the key is
\* still in the cache afterwards.
C36_ReleasesOwnLockOnly ==
    [][\A h \in Handlers :
          LET req_id == req_id_for(hmsg[h])
          IN  (/\ Completes(h)
               /\ inflight_key(req_id) \in redis_data
               /\ claimed_by[req_id] # h) =>
                    inflight_key(req_id) \in redis_data']_vars

(***************************************************************************)
(* Agent service: which stream a captured record is added to.             *)
(***************************************************************************)
\* C37: every captured record is added only to the stream of the request
\* whose agent emitted it: no record of the agent of request A is in
\* browser_use_logs:B.
C37_RecordsInOwnStreamOnly ==
    \A p \in appended : p[1] = request_id_of(p[2])

(***************************************************************************)
(* Agent service: the AgentHandle after its run.                          *)
(***************************************************************************)
\* the run of call a ends in this step
RunEnds(a) == apc[a] = "run" /\ apc'[a] = "done"
\* a control command for session sid is answered in this step
Commanded(sid) == ncmd' = ncmd + 1 /\ cmd'.sid = sid
\* an agent of session sid is inside agent.run()
Running(sid) == \E a \in Agents : apc[a] = "run" /\ asid[a] = sid

\* C38: when an agent run ends, its AgentHandle is no longer registered for
\* the session, and a later pause, resume, stop or status command for a
\* session without a running agent reports that no agent exists and leaves
\* the session and the agents as they are.
C38_FinishedAgentUnregistered ==
    [][/\ \A a \in Agents :
            RunEnds(a) => \A sid \in PoolSids : SESSION_ID_TO_AGENT_MAP'[sid] # a
       /\ \A sid \in PoolSids :
            (Commanded(sid) /\ ~Running(sid)) =>
                /\ cmd'.code \in {400, 404}
                /\ UNCHANGED <<SESSIONS_MAP, SESSION_ID_TO_BROWSER_SESSION,
                               SESSION_PROCESSES, proc, astate>>]_vars

\* the first half of C38 alone
C38_UnregisteredAtEnd ==
    [][\A a \in Agents :
            RunEnds(a) => \A sid \in PoolSids : SESSION_ID_TO_AGENT_MAP'[sid] # a]_vars
\* the second half of C38 alone
C38_CommandFindsNoAgent ==
    [][\A sid \in PoolSids :
            (Commanded(sid) /\ ~Running(sid)) => cmd'.code \in {400, 404}]_vars

(***************************************************************************)
(* Agent tools: human_in_the_loop.                                         *)
(***************************************************************************)
\* C39: human_in_the_loop never raises, and when it leaves the agent paused
\* the webhook POST carrying {request_id, session_id} was answered with
\* success; without a webhook URL or with a failed POST it returns an error
\* result and the agent is not left paused.
C39_PausedOnlyIfNotified ==
    (call.op = "human_in_the_loop" /\ result.done) =>
        /\ ~result.value.raised
        /\ result.value.agent = "paused" =>
               /\ result.value.answer = "200"
               /\ result.value.posted = [request_id |-> call.request_id,
                                         session_id |-> call.session_id]
        /\ (~call.webhook_url \/ call.post # "200") =>
               result.value.error /\ result.value.agent # "paused"

\* the first part of C39 alone: no call raises, and a call that could not
\* notify returns an error result
C39_ErrorsAreResults ==
    (call.op = "human_in_the_loop" /\ result.done) =>
        /\ ~result.value.raised
        /\ (~call.webhook_url \/ call.post # "200") => result.value.error

(***************************************************************************)
(* Single-session service: the session check of the agents router.        *)
(***************************************************************************)
\* POST /sessions has answered 200 with session id sid, and sid has not been
\* deleted
Created(sid) ==
    /\ current_session_id = sid
    /\ \E r \in Requests : rkind[r] = "create" /\ rcode[r] = 200 /\ rsid[r] = sid

\* C40: in the single-session service, from the success of POST /sessions
\* with session id S until S is deleted, the session check of the agent
\* commands (run, stop, pause, resume, status) accepts S: no command naming
\* S is answered "Invalid or inactive session ID".
C40_CreatedSessionAccepted ==
    [][\A r \in Requests :
          Created(rsid[r]) =>
              /\ session_active(rsid[r])
              /\ Commanded(rsid[r]) => cmd'.code # 400]_vars

\* a session is created and held
C40_SessionCreated == \E r \in Requests : Created(rsid[r])
====
